---- MODULE Spec2Model ----
(***************************************************************************)
(* tcmb-xml-rates: the fallback resolution of getRates (src/src/client.ts) *)
(* and getHourlyRates (src/src/hourly-client.ts) over the process-wide     *)
(* cache (src/src/utils/cache.ts), the date utilities                      *)
(* (src/src/utils/date.ts) and the two decoders (src/src/parser.ts).       *)
(*                                                                         *)
(* JavaScript runs the code between two awaits without interruption, so    *)
(* one action is the code from a call's start, or from the settlement of   *)
(* its pending fetch, up to the next fetch or to the call's end.           *)
(*                                                                         *)
(* Time is counted in seconds.  A Date is modelled by its calendar day in  *)
(* the host's local time (a day number), the only thing the fetch loops    *)
(* read from it (getFullYear/getMonth/getDate); "today" is the calendar    *)
(* day of the clock.                                                       *)
(***************************************************************************)
EXTENDS Integers, Sequences, FiniteSets, TLC

VARIABLES
    now,            \* the clock (Date.now()), in seconds
    cache,          \* globalCache: cache key -> [data, expiresAt]
    pc,             \* "idle" | "fetch" (awaiting fetch(url)) | "done"
    api,            \* "getRates" | "getHourlyRates" | "" : the running call
    options,        \* the options of the running call
    startedAt,      \* history: the clock reading at which the call started
    targetDate,     \* let targetDate
    targetHour,     \* let targetHour (hourly)
    hoursToTry,     \* const hoursToTry of the current day (hourly)
    hourIdx,        \* position of tryHour in hoursToTry (hourly)
    retries,        \* let retries (client.ts) / let dayRetries (hourly-client.ts)
    lastError,      \* let lastError
    isTargetToday,  \* const isTargetToday (hourly-client.ts:79)
    url,            \* the url of the pending fetch
    attempts,       \* history: the urls handed to fetch by the running call
    result,         \* what the call returned or threw
    calls,          \* history: one summary per finished call
    ticks,          \* history: number of clock advances so far
    args,           \* what the caller passed besides the options: the function
                    \* of index.ts it called, a currency code, a date string
    found,          \* what getRate / getHourlyRate returned or threw
    lastSet,        \* history: key -> the latest set(key, ..) since the last clear()
    got,            \* the latest get(key) of a caller of the cache and its value
    input,          \* the arguments of a call of convert or of a utility function
    output,         \* what that call returned or threw
    server,         \* url -> what the server answers for it, where a
                    \* specification holds the documents of the server fixed
    peer            \* a second call of getHourlyRates that runs while the
                    \* first one awaits its fetch

vars == << now, cache, pc, api, options, startedAt, targetDate, targetHour,
           hoursToTry, hourIdx, retries, lastError, isTargetToday, url, attempts,
           result, calls, ticks, args, found, lastSet, got,
                    input, output, server, peer >>

(***************************************************************************)
(* Bounds of the model.                                                    *)
(***************************************************************************)
\* <Currency> entries of a served daily document: 0..MaxEntries
MaxEntries == 2
\* <kur> entries of a served hourly document: 0..MaxKur
MaxKur == 1
\* calls made one after the other (specification SpecSeq)
MaxCalls == 2
\* clock advances between the operations of the cache (specification SpecCache)
MaxTicks == 3

\* the day on which every behaviour starts, and the clock readings it starts at:
\* 06:00 and 09:30 UTC, that is 09:00 and 12:30 in Istanbul
StartDay == 40
InitClocks == { StartDay * 86400 + 21600, StartDay * 86400 + 34200 }
\* clock advances: two hours, twenty-five hours
TickSteps == { 7200, 90000 }
\* explicit dates a caller asks for: three days ago, today, tomorrow
PastDay == StartDay - 3
ExplicitDays == { PastDay, StartDay, StartDay + 1 }

(***************************************************************************)
(* Dates and text.                                                         *)
(***************************************************************************)
\* Date#getFullYear/getMonth()+1/getDate of day number n; the window covers
\* October to December 2025 (day 1 is 2025-10-01)
Civil(n) ==
    IF n <= 31 THEN [y |-> 2025, m |-> 10, d |-> n]
    ELSE IF n <= 61 THEN [y |-> 2025, m |-> 11, d |-> n - 31]
    ELSE [y |-> 2025, m |-> 12, d |-> n - 61]

\* Number#toString: the decimal digits of n
RECURSIVE Digits(_)
Digits(n) == IF n < 10 THEN << n >> ELSE Digits(n \div 10) \o << n % 10 >>

\* the number a digit string denotes
RECURSIVE Num(_)
Num(s) == IF s = << >> THEN 0 ELSE 10 * Num(SubSeq(s, 1, Len(s) - 1)) + s[Len(s)]

\* padStart left out
PadStart2_Unpadded(s) == s

\* String#padStart(2, '0')
PadStart2(s) ==
    IF Len(s) >= 2 THEN s ELSE IF Len(s) = 1 THEN << 0 >> \o s ELSE << 0, 0 >>

\* the calendar day of an instant
DayOf(t) == t \div 86400

\* getPreviousDay without the setDate(getDate() - 1)
getPreviousDay_SameDay(date) == date

\* an Invalid Date (its time value is NaN), as new Date(text) gives for a text
\* that is no date
InvalidDate == -1

\* getPreviousDay(date); setDate on an Invalid Date leaves it invalid
getPreviousDay(date) == IF date = InvalidDate THEN InvalidDate ELSE date - 1

\* isToday(date): the date's calendar day is the clock's
isToday(date, t) == date = DayOf(t)

\* toISODate(date): YYYY-MM-DD as its three parts
toISODate(date) ==
    << Digits(Civil(date).y), PadStart2(Digits(Civil(date).m)),
       PadStart2(Digits(Civil(date).d)) >>

(***************************************************************************)
(* Date strings of a caller.  A text is kept as its separator and the      *)
(* digit strings between the separators; Words is a text without digits,   *)
(* such as 'yesterday'.                                                    *)
(***************************************************************************)
Words == [sep |-> "words", parts |-> << >>]

\* the days of the months of 2025
DaysInMonth == << 31, 28, 31, 30, 31, 30, 31, 31, 30, 31, 30, 31 >>

\* the day number of a calendar day of the window of Civil
DayNumber(y, m, d) == IF m = 10 THEN d ELSE IF m = 11 THEN 31 + d ELSE 61 + d

\* new Date(text): the date of a YYYY-MM-DD text with a month and a day that
\* exist, an Invalid Date for a text with a month that does not exist and
\* for Words (the texts the callers of this model pass are of these shapes)
NewDate(text) ==
    IF /\ text.sep = "-" /\ Len(text.parts) = 3
       /\ Len(text.parts[1]) = 4 /\ Len(text.parts[2]) = 2 /\ Len(text.parts[3]) = 2
       /\ Num(text.parts[2]) \in 1..12
       /\ Num(text.parts[3]) \in 1..DaysInMonth[Num(text.parts[2])]
    THEN DayNumber(Num(text.parts[1]), Num(text.parts[2]), Num(text.parts[3]))
    ELSE InvalidDate

\* normalizeDate(dateInput) of a string
normalizeDate(text) ==
    IF /\ text.sep = "." /\ Len(text.parts) = 3
       /\ Len(text.parts[1]) = 2 /\ Len(text.parts[2]) = 2 /\ Len(text.parts[3]) = 4
    THEN NewDate([sep |-> "-",
                  parts |-> << text.parts[3], text.parts[2], text.parts[1] >>])
    ELSE NewDate(text)

(***************************************************************************)
(* Hour slots (src/src/utils/date.ts).                                     *)
(***************************************************************************)
VALID_HOURS == << "10:00", "11:00", "12:00", "13:00", "14:00", "15:00" >>

\* Array#indexOf, counted from 1; 0 when absent
IndexOf(seq, x) ==
    IF \E i \in 1..Len(seq) : seq[i] = x
    THEN CHOOSE i \in 1..Len(seq) : seq[i] = x /\ \A j \in 1..(i - 1) : seq[j] # x
    ELSE 0

\* reverse() left out
Reverse_InPlace(seq) == seq

\* Array#reverse
Reverse(seq) == [i \in 1..Len(seq) |-> seq[Len(seq) + 1 - i]]

\* getIstanbulHour without the offset: the hour in UTC
getIstanbulHour_Utc(t) == (t \div 3600) % 24

\* getIstanbulHour(): (now.getUTCHours() + 3) % 24
getIstanbulHour(t) == (((t \div 3600) % 24) + 3) % 24

\* getLatestAvailableHour()
getLatestAvailableHour(t) ==
    IF getIstanbulHour(t) < 10 THEN "15:00"
    ELSE IF getIstanbulHour(t) >= 15 THEN "15:00"
    ELSE VALID_HOURS[getIstanbulHour(t) - 10 + 1]

\* getHoursToTry without the reverse(): the slots in ascending order
getHoursToTry_Ascending(startHour) ==
    IF IndexOf(VALID_HOURS, startHour) = 0
    THEN VALID_HOURS
    ELSE SubSeq(VALID_HOURS, 1, IndexOf(VALID_HOURS, startHour))

\* getHoursToTry without the slice: every slot of the day, whatever the start
getHoursToTry_AllSlots(startHour) == Reverse(VALID_HOURS)

\* getHoursToTry(startHour)
getHoursToTry(startHour) ==
    IF IndexOf(VALID_HOURS, startHour) = 0
    THEN Reverse(VALID_HOURS)
    ELSE Reverse(SubSeq(VALID_HOURS, 1, IndexOf(VALID_HOURS, startHour)))

(***************************************************************************)
(* Retrieval urls and cache keys.  A url is kept as the parts its path is  *)
(* formatted from: the feed, the latest-document path or a date, the hour. *)
(***************************************************************************)
TCMB_BASE_URL == "kurlar"
TCMB_HOURLY_BASE_URL == "reeskontkur"

\* `${TCMB_BASE_URL}/today.xml`
TodayUrl == [base |-> TCMB_BASE_URL, today |-> TRUE, day |-> 0, hour |-> ""]
\* `${TCMB_BASE_URL}/${formatDateForTcmb(date).path}`
DatedUrl(date) == [base |-> TCMB_BASE_URL, today |-> FALSE, day |-> date, hour |-> ""]
\* `${TCMB_HOURLY_BASE_URL}/${formatDateForHourly(date, hour).path}`
HourlyUrl(date, hour) ==
    [base |-> TCMB_HOURLY_BASE_URL, today |-> FALSE, day |-> date, hour |-> hour]

\* a url rule that takes today.xml for every first attempt at today's date
RatesUrl_TodayForExplicitToday(date, isExplicitDate, r, t) ==
    IF isToday(date, t) /\ r = 0 THEN TodayUrl ELSE DatedUrl(date)

\* the url of one attempt of fetchRates (client.ts:47-54)
RatesUrl(date, isExplicitDate, r, t) ==
    IF isToday(date, t) /\ ~isExplicitDate /\ r = 0 THEN TodayUrl ELSE DatedUrl(date)

\* one key for every document of the daily feed
RatesCacheKey_OneKey(u) == [prefix |-> "tcmb_rates_", url |-> TodayUrl]

\* `tcmb_rates_${url}` and `tcmb_hourly_${url}`
RatesCacheKey(u) == [prefix |-> "tcmb_rates_", url |-> u]
HourlyCacheKey(u) == [prefix |-> "tcmb_hourly_", url |-> u]

(***************************************************************************)
(* The paths of the dated documents (src/src/utils/date.ts:27-38, 82-93).  *)
(* A date is given by what getFullYear(), getMonth() + 1 and getDate()     *)
(* return for it; a path is kept as the digit strings between the '/',     *)
(* the '-' and the '.xml' of its template.                                 *)
(***************************************************************************)
\* the text of a slot: the digit strings on both sides of its colon
HourParts(hour) == << Digits(IndexOf(VALID_HOURS, hour) + 9), << 0, 0 >> >>

\* hour.replace(':', '')
RemoveColon(parts) == parts[1] \o parts[2]

\* formatDateForTcmb(date).path: `${year}${month}/${day}${month}${year}.xml`
formatDateForTcmb(date) ==
    LET year == Digits(date.y)
        month == PadStart2(Digits(date.m))
        day == PadStart2(Digits(date.d))
    IN  [dir |-> year \o month, file |-> day \o month \o year, hour |-> << >>]

\* formatDateForHourly(date, hour).path:
\* `${year}${month}/${day}${month}${year}-${hourNum}.xml`
formatDateForHourly(date, hour) ==
    LET year == Digits(date.y)
        month == PadStart2(Digits(date.m))
        day == PadStart2(Digits(date.d))
        hourNum == RemoveColon(HourParts(hour))
    IN  [dir |-> year \o month, file |-> day \o month \o year, hour |-> hourNum]

(***************************************************************************)
(* InMemoryCache (src/src/utils/cache.ts).                                 *)
(***************************************************************************)
\* set(key, ..) that stores nothing
CacheSet_Drops(c, key, data, ttlSeconds, t) == c

\* set(key, data, ttlSeconds)
CacheSet(c, key, data, ttlSeconds, t) ==
    [k \in DOMAIN c \cup {key} |->
        IF k = key THEN [data |-> data, expiresAt |-> t + ttlSeconds] ELSE c[k]]

\* get(key) without the comparison with expiresAt
CacheHit_IgnoresExpiry(c, key, t) == key \in DOMAIN c

\* get(key) with >= in place of >: an entry is gone at its expiry instant
CacheHit_GoneAtExpiry(c, key, t) == key \in DOMAIN c /\ ~(t >= c[key].expiresAt)

\* get(key) finds an entry that has not expired
CacheHit(c, key, t) == key \in DOMAIN c /\ ~(t > c[key].expiresAt)

\* get(key): the value it returns, null when there is none
CacheGet(c, key, t) == IF CacheHit(c, key, t) THEN { c[key].data } ELSE {}

\* the store after get(key): an expired entry is deleted
CacheAfterGet(c, key, t) ==
    IF key \in DOMAIN c /\ t > c[key].expiresAt
    THEN [k \in DOMAIN c \ {key} |-> c[k]]
    ELSE c

EmptyCache == [k \in {} |-> 0]

(***************************************************************************)
(* The documents of the feed.  A document is the text the transport        *)
(* returns: whether its container nodes are there, its date attribute as   *)
(* the parts between the separators (each a digit string), its hour        *)
(* attribute and its entries.  The field day is not text: it names the     *)
(* calendar day whose document this is.                                    *)
(***************************************************************************)
\* an absent numeric value (null) is {}, a present one {v}
Null == {}

\* the entries a daily document is cut from: their numeric fields as text, their
\* code as its letters
DailyEntries ==
    << [code |-> << "U", "S", "D" >>, ForexBuying |-> << 2, 8 >>, ForexSelling |-> << 2, 9 >>,
        BanknoteBuying |-> << 2, 7 >>, BanknoteSelling |-> << 3, 0 >>,
        CrossRateUSD |-> << >>, CrossRateOther |-> << >>],
       [code |-> << "X", "D", "R" >>, ForexBuying |-> << 3, 8 >>, ForexSelling |-> << >>,
        BanknoteBuying |-> << >>, BanknoteSelling |-> << >>,
        CrossRateUSD |-> << >>, CrossRateOther |-> << 1 >>],
       [code |-> << "E", "U", "R" >>, ForexBuying |-> << 3, 1 >>, ForexSelling |-> << 3, 2 >>,
        BanknoteBuying |-> << 3, 0 >>, BanknoteSelling |-> << 3, 3 >>,
        CrossRateUSD |-> << >>, CrossRateOther |-> << 1 >>] >>

\* the entries an hourly document is cut from
HourlyEntries ==
    << [code |-> << "U", "S", "D" >>, alis |-> << 4, 3 >>],
       [code |-> << "X", "A", "U" >>, alis |-> << 6, 1, 1, 5 >>],
       [code |-> << "E", "U", "R" >>, alis |-> << 5, 0 >>] >>

\* <Tarih_Date Date="MM/DD/YYYY"> with n <Currency> entries
DailyDoc(day, n) ==
    [feed |-> TCMB_BASE_URL, day |-> day, root |-> TRUE, header |-> FALSE, liste |-> FALSE,
     date |-> << PadStart2(Digits(Civil(day).m)), PadStart2(Digits(Civil(day).d)),
                 Digits(Civil(day).y) >>,
     saat |-> "", entries |-> SubSeq(DailyEntries, 1, n)]

\* <doviz_kur_liste gecerlilik_tarihi="YYYY-M-D" saat="HH:00"> with n <kur> entries
HourlyDoc(day, hour, n) ==
    [feed |-> TCMB_HOURLY_BASE_URL, day |-> day, root |-> TRUE, header |-> TRUE,
     liste |-> TRUE,
     date |-> << Digits(Civil(day).y), Digits(Civil(day).m), Digits(Civil(day).d) >>,
     saat |-> hour, entries |-> SubSeq(HourlyEntries, 1, n)]

\* a response body without the container nodes
BrokenDoc(feed) ==
    [feed |-> feed, day |-> 0, root |-> FALSE, header |-> FALSE, liste |-> FALSE,
     date |-> << >>, saat |-> "",
     entries |-> << >>]

\* what the feed may answer for a url at time t: the dated document of that
\* day, for today.xml the latest published document (of today or of the day
\* before), or a body that is not such a document
ServedDocs(u, t) ==
    IF u.day = InvalidDate /\ ~u.today
    THEN { BrokenDoc(u.base) }
    ELSE IF u.base = TCMB_BASE_URL
    THEN { DailyDoc(d, n) : d \in (IF u.today THEN {DayOf(t), DayOf(t) - 1} ELSE {u.day}),
                            n \in 0..MaxEntries }
         \cup { BrokenDoc(TCMB_BASE_URL) }
    ELSE { HourlyDoc(u.day, u.hour, n) : n \in 0..MaxKur }
         \cup { BrokenDoc(TCMB_HOURLY_BASE_URL) }

(***************************************************************************)
(* The decoders (src/src/parser.ts).                                       *)
(***************************************************************************)
\* a character of a numeric field that is no digit, and the number NaN
X == 10
NaN == -1

\* the text is a number to the XMLParser (parser.ts:5-13, which leaves
\* parseTagValue on): the parser hands it over as a number, any other text as
\* a string
IsNumeric(text) == text # << >> /\ \A i \in 1..Len(text) : text[i] # X

\* parseFloat(text): the number of the leading digits, NaN without any
ParseFloat(text) ==
    LET lead == { k \in 0..Len(text) : \A i \in 1..k : text[i] # X }
        n == CHOOSE k \in lead : \A j \in lead : j <= k
    IN  IF n = 0 THEN NaN ELSE Num(SubSeq(text, 1, n))

\* parseNumber(val) of the daily decoder (parser.ts:15-27) on the text of a
\* field, << >> for a blank or a missing one
parseNumber(val) ==
    IF val = << >> THEN Null
    ELSE IF IsNumeric(val) THEN (IF Num(val) = 0 THEN Null ELSE { Num(val) })
    ELSE { ParseFloat(val) }

\* parseTcmbXml(xmlContent) throws ParseError
TcmbXmlThrows(doc) == ~doc.root \/ doc.entries = << >>

\* the isoDate of parseTcmbXml without the reordering of the parts
TcmbIsoDate_PartsInPlace(date) == date

\* the isoDate of parseTcmbXml (parser.ts:37-49)
TcmbIsoDate(date) ==
    IF Len(date) = 3 THEN << date[3], date[1], date[2] >> ELSE date

\* parseTcmbXml(xmlContent): the records
parseTcmbXml(doc) ==
    [i \in 1..Len(doc.entries) |->
        [code |-> doc.entries[i].code,
         forexBuying |-> parseNumber(doc.entries[i].ForexBuying),
         forexSelling |-> parseNumber(doc.entries[i].ForexSelling),
         banknoteBuying |-> parseNumber(doc.entries[i].BanknoteBuying),
         banknoteSelling |-> parseNumber(doc.entries[i].BanknoteSelling),
         crossRateUsd |-> parseNumber(doc.entries[i].CrossRateUSD),
         crossRateOther |-> parseNumber(doc.entries[i].CrossRateOther),
         timestamp |-> "",
         buying |-> Null,
         date |-> TcmbIsoDate(doc.date),
         effectiveDate |-> doc.date,
         hour |-> "",
         raw |-> [day |-> doc.day, index |-> i]]]

\* normalizeHourlyDate(dateStr), on the parts between the dashes
normalizeHourlyDate(date) ==
    IF Len(date) = 3
    THEN << date[1], PadStart2(date[2]), PadStart2(date[3]) >>
    ELSE date

\* parseHourlyXml(xmlContent) throws ParseError
HourlyXmlThrows(doc) == ~doc.root \/ ~doc.liste

\* parseHourlyXml(xmlContent): the records
parseHourlyXml(doc) ==
    [i \in 1..Len(doc.entries) |->
        [code |-> doc.entries[i].code,
         forexBuying |-> Null, forexSelling |-> Null,
         banknoteBuying |-> Null, banknoteSelling |-> Null,
         crossRateUsd |-> Null, crossRateOther |-> Null,
         timestamp |-> IF doc.header THEN "zaman_etiketi" ELSE "",
         buying |-> { Num(doc.entries[i].alis) },
         date |-> normalizeHourlyDate(doc.date),
         effectiveDate |-> doc.date,
         hour |-> doc.saat,
         raw |-> [day |-> doc.day, index |-> i]]]

\* filterRates that keeps every record
filterRates_KeepsAll(rates, type) == rates

\* filterRates(rates, type) (client.ts:115-127)
filterRates(rates, type) ==
    IF type = "all" THEN rates
    ELSE LET Keep(rate) ==
                 IF type = "forex"
                 THEN rate.forexBuying # Null \/ rate.forexSelling # Null
                 ELSE IF type = "banknote"
                 THEN rate.banknoteBuying # Null \/ rate.banknoteSelling # Null
                 ELSE TRUE
         IN  SelectSeq(rates, Keep)

(***************************************************************************)
(* Currency codes (src/src/index.ts:43-52, src/src/hourly-client.ts:       *)
(* 220-232).  A code is the sequence of its characters.                    *)
(***************************************************************************)
\* the upper-case letter of each lower-case letter that the codes are made of
Upper ==
    [c \in {"a", "b", "d", "e", "g", "p", "r", "s", "t", "u", "x", "y"} |->
        CASE c = "a" -> "A" [] c = "b" -> "B" [] c = "d" -> "D" [] c = "e" -> "E"
          [] c = "g" -> "G" [] c = "p" -> "P" [] c = "r" -> "R" [] c = "s" -> "S"
          [] c = "t" -> "T" [] c = "u" -> "U" [] c = "x" -> "X" [] c = "y" -> "Y"]

\* String#toUpperCase left out: the code is compared as the caller wrote it
ToUpperCase_Unchanged(code) == code

\* String#toUpperCase
ToUpperCase(code) ==
    [i \in 1..Len(code) |-> IF code[i] \in DOMAIN Upper THEN Upper[code[i]] ELSE code[i]]

\* a test that takes no code for empty
IsEmptyCode_Never(currencyCode) == FALSE

\* !currencyCode
IsEmptyCode(currencyCode) == currencyCode = << >>

\* rates.find(r => r.code === code || r.currencyCode === code) || null
FindRate(rates, code) ==
    IF \E i \in 1..Len(rates) : rates[i].code = code
    THEN { rates[CHOOSE i \in 1..Len(rates) :
                     /\ rates[i].code = code
                     /\ \A j \in 1..(i - 1) : rates[j].code # code] }
    ELSE {}

(***************************************************************************)
(* Time to live of the cache entries, in seconds.                          *)
(***************************************************************************)
CURRENT_HOUR == 120
PAST_HOUR == 3600
PAST_DAY == 86400
TODAY_TTL == 300

\* client.ts:83: const ttl = url.includes('today.xml') ? 300 : 86400
RatesTtl(u) == IF u.today THEN TODAY_TTL ELSE PAST_DAY

\* a TTL of no length
determineCacheTtl_None(date, hour, targetToday, t) == 0

\* determineCacheTtl(targetDate, hour, isTargetToday) at time t
determineCacheTtl(date, hour, targetToday, t) ==
    IF ~targetToday THEN PAST_DAY
    ELSE IF hour = getLatestAvailableHour(t) THEN CURRENT_HOUR
    ELSE PAST_HOUR

(***************************************************************************)
(* The options a caller passes, the outcomes of the transport, the errors. *)
(***************************************************************************)
\* date: {} when the caller passes none, {d} for a date of calendar day d
DateInputs == { {} } \cup { {d} : d \in ExplicitDays }
HourInputs == { "latest" } \cup { VALID_HOURS[i] : i \in 1..Len(VALID_HOURS) }

\* GetRatesOptions with the defaults of client.ts:20-26 filled in
RatesOptions ==
    [date : DateInputs, rateType : {"all", "forex", "banknote"},
     hour : {""}, fallbackToLastBusinessDay : BOOLEAN,
     fallbackToPreviousHour : {FALSE}, cache : BOOLEAN]

\* GetHourlyRatesOptions with the defaults of hourly-client.ts:68-75 filled in
HourlyOptions ==
    [date : { {}, {PastDay} }, rateType : {""},
     hour : HourInputs, fallbackToLastBusinessDay : BOOLEAN,
     fallbackToPreviousHour : BOOLEAN, cache : BOOLEAN]

\* YYYY-MM-DD and DD.MM.YYYY of a day
IsoText(date) == [sep |-> "-", parts |-> toISODate(date)]
TrText(date) ==
    [sep |-> ".",
     parts |-> << toISODate(date)[3], toISODate(date)[2], toISODate(date)[1] >>]

\* the date strings a caller passes: the two accepted forms of a past day,
\* 2025-13-01, 32.13.2025, and a text without digits
DateTexts ==
    { IsoText(PastDay), TrText(PastDay), Words,
      [sep |-> "-", parts |-> << Digits(2025), << 1, 3 >>, << 0, 1 >> >>],
      [sep |-> ".", parts |-> << << 3, 2 >>, << 1, 3 >>, Digits(2025) >>] }

\* how fetch(url) settles: a 2xx response, a 404, another status, a rejection
\* of the promise by the network, a rejection by the caller's abort signal
Outcomes == { "ok", "404", "500", "reject", "abort" }

\* an error table that records nothing for a status 404
ErrorOf_ForgetsNotFound(outcome, parseThrows) ==
    IF outcome = "500" THEN "TcmbResponseError"
    ELSE IF outcome = "reject" THEN "TypeError"
    ELSE IF outcome = "abort" THEN "AbortError"
    ELSE IF outcome = "ok" /\ parseThrows THEN "ParseError"
    ELSE "null"

\* the error the try block ends with for an outcome of fetch and, for a 2xx
\* response, whether the decoder throws
ErrorOf(outcome, parseThrows) ==
    IF outcome = "404" THEN "TcmbResponseError404"
    ELSE IF outcome = "500" THEN "TcmbResponseError"
    ELSE IF outcome = "reject" THEN "TypeError"
    ELSE IF outcome = "abort" THEN "AbortError"
    ELSE IF parseThrows THEN "ParseError"
    ELSE "null"

\* a test that takes no error for a 404
Is404_Never(err) == FALSE

\* err instanceof TcmbResponseError && err.statusCode === 404
Is404(err) == err = "TcmbResponseError404"

NoResult == [kind |-> "none", rates |-> << >>, error |-> "", cached |-> FALSE]
Returned(rates, cached) ==
    [kind |-> "rates", rates |-> rates, error |-> "", cached |-> cached]
Thrown(error) == [kind |-> "error", rates |-> << >>, error |-> error, cached |-> FALSE]
\* what a single-currency lookup returns: the record found, or null
Looked(rate) ==
    IF rate = {} THEN [kind |-> "null", rates |-> << >>, error |-> "", cached |-> FALSE]
    ELSE [kind |-> "rate", rates |-> << CHOOSE r \in rate : TRUE >>, error |-> "",
          cached |-> FALSE]

\* one retry more than the budget
MAX_RETRIES_OneMore(fallbackToLastBusinessDay) ==
    IF fallbackToLastBusinessDay THEN 15 + 1 ELSE 0

\* client.ts:34: const MAX_RETRIES = fallbackToLastBusinessDay ? 15 : 0
MAX_RETRIES(fallbackToLastBusinessDay) == IF fallbackToLastBusinessDay THEN 15 ELSE 0

\* hourly-client.ts:38
MAX_DAY_RETRIES == 15

\* one day more than the budget
maxDayRetries_OneMore(fallbackToLastBusinessDay) ==
    IF fallbackToLastBusinessDay THEN MAX_DAY_RETRIES + 1 ELSE 0

\* hourly-client.ts:85
maxDayRetries(fallbackToLastBusinessDay) ==
    IF fallbackToLastBusinessDay THEN MAX_DAY_RETRIES ELSE 0

(***************************************************************************)
(* The state after construction: no call, an empty cache.                  *)
(***************************************************************************)
NoUrl == [base |-> "", today |-> FALSE, day |-> 0, hour |-> ""]
NoOptions ==
    [date |-> {}, rateType |-> "", hour |-> "", fallbackToLastBusinessDay |-> FALSE,
     fallbackToPreviousHour |-> FALSE, cache |-> FALSE]

\* no date string
NoText == [sep |-> "", parts |-> << >>]
\* a call of getRates / getHourlyRates itself: no currency code, no date string
NoArgs == [wrapper |-> "", currencyCode |-> << >>, date |-> NoText]
\* no call of convert or of a utility function
NoInput == [fn |-> ""]
\* no answer is fixed: every fetch may settle in every way
NoServer == << >>
\* no second call
NoPeer == [pc |-> "idle", options |-> NoOptions, isTargetToday |-> FALSE,
           url |-> NoUrl, attempts |-> << >>, result |-> NoResult]
\* no get(key) yet
NoGet == [asked |-> FALSE, key |-> RatesCacheKey(NoUrl), value |-> Null]

Init ==
    /\ now \in InitClocks
    /\ cache = EmptyCache
    /\ pc = "idle"
    /\ api = ""
    /\ options = NoOptions
    /\ startedAt = 0
    /\ targetDate = 0
    /\ targetHour = ""
    /\ hoursToTry = << >>
    /\ hourIdx = 0
    /\ retries = 0
    /\ lastError = "null"
    /\ isTargetToday = FALSE
    /\ url = NoUrl
    /\ attempts = << >>
    /\ result = NoResult
    /\ calls = << >>
    /\ ticks = 0
    /\ args = NoArgs
    /\ found = NoResult
    /\ lastSet = EmptyCache
    /\ got = NoGet
    /\ input = NoInput
    /\ output = NoResult
    /\ server = NoServer
    /\ peer = NoPeer

(***************************************************************************)
(* fetchRates (src/src/client.ts:19-113).                                  *)
(***************************************************************************)
\* the call ends: it returns or throws res
Finish(res, date, r, err) ==
    /\ pc' = "done"
    /\ result' = res
    /\ targetDate' = date
    /\ retries' = r
    /\ lastError' = err
    /\ url' = NoUrl
    /\ attempts' = attempts

\* a pass of the loop that reads the cache whatever options.cache says
RatesTry_ReadsCacheAlways(o, date, r, err) ==
    LET u == RatesUrl(date, o.date # {}, r, now)
        cacheKey == RatesCacheKey(u)
    IN  IF CacheHit(cache, cacheKey, now)
        THEN /\ Finish(Returned(filterRates(cache[cacheKey].data, o.rateType), TRUE),
                       date, r, err)
             /\ cache' = cache
        ELSE /\ pc' = "fetch"
             /\ url' = u
             /\ attempts' = Append(attempts, u)
             /\ targetDate' = date
             /\ retries' = r
             /\ lastError' = err
             /\ result' = NoResult
             /\ cache' = CacheAfterGet(cache, cacheKey, now)

\* one pass of the while loop from its top to the await of fetch or to the
\* return of the cached records (client.ts:38-68)
RatesTry(o, date, r, err) ==
    LET u == RatesUrl(date, o.date # {}, r, now)
        cacheKey == RatesCacheKey(u)
    IN  IF o.cache /\ CacheHit(cache, cacheKey, now)
        THEN /\ Finish(Returned(filterRates(cache[cacheKey].data, o.rateType), TRUE),
                       date, r, err)
             /\ cache' = cache
        ELSE /\ pc' = "fetch"
             /\ url' = u
             /\ attempts' = Append(attempts, u)
             /\ targetDate' = date
             /\ retries' = r
             /\ lastError' = err
             /\ result' = NoResult
             /\ cache' = IF o.cache THEN CacheAfterGet(cache, cacheKey, now) ELSE cache

\* getRates(options) = fetchRates(options), up to its first await
GetRates(o) ==
    /\ pc = "idle"
    /\ api' = "getRates"
    /\ options' = o
    /\ startedAt' = now
    /\ isTargetToday' = FALSE
    /\ RatesTry(o, IF o.date = {} THEN DayOf(now) ELSE CHOOSE d \in o.date : TRUE,
                0, "null")
    /\ UNCHANGED << now, targetHour, hoursToTry, hourIdx, calls, ticks >>

\* a catch block that rethrows what it caught when day fallback is off
RatesCatch_Rethrows(o, err) ==
    IF o.fallbackToLastBusinessDay
    THEN IF retries + 1 <= MAX_RETRIES(o.fallbackToLastBusinessDay)
         THEN RatesTry(o, getPreviousDay(targetDate), retries + 1, err)
         ELSE /\ Finish(Thrown("NoBusinessDayDataError"),
                        getPreviousDay(targetDate), retries + 1, err)
              /\ cache' = cache
    ELSE /\ Finish(Thrown(err), targetDate, retries, err)
         /\ cache' = cache

\* the catch block (client.ts:90-106) and the loop's next pass or its exit
RatesCatch(o, err) ==
    IF o.fallbackToLastBusinessDay
    THEN IF retries + 1 <= MAX_RETRIES(o.fallbackToLastBusinessDay)
         THEN RatesTry(o, getPreviousDay(targetDate), retries + 1, err)
         ELSE /\ Finish(Thrown("NoBusinessDayDataError"),
                        getPreviousDay(targetDate), retries + 1, err)
              /\ cache' = cache
    ELSE /\ Finish(Thrown(IF Is404(err) THEN "NoBusinessDayDataError" ELSE "NetworkError"),
                   targetDate, retries, err)
         /\ cache' = cache

\* a settlement that stores the records it returns, filtered by rateType
RatesResponse_StoresFiltered(outcome, doc) ==
    /\ pc = "fetch"
    /\ api = "getRates"
    /\ IF outcome = "ok" /\ ~TcmbXmlThrows(doc)
       THEN /\ cache' = IF options.cache
                        THEN CacheSet(cache, RatesCacheKey(url),
                                      filterRates(parseTcmbXml(doc), options.rateType),
                                      RatesTtl(url), now)
                        ELSE cache
            /\ Finish(Returned(filterRates(parseTcmbXml(doc), options.rateType), FALSE),
                      targetDate, retries, lastError)
       ELSE RatesCatch(options, ErrorOf(outcome, TcmbXmlThrows(doc)))
    /\ UNCHANGED << now, api, options, startedAt, targetHour, hoursToTry, hourIdx,
                    isTargetToday, calls, ticks, args, found, lastSet, got,
                    input, output, server, peer >>

\* the pending fetch of fetchRates settles (client.ts:68-106)
RatesResponse(outcome, doc) ==
    /\ pc = "fetch"
    /\ api = "getRates"
    /\ IF outcome = "ok" /\ ~TcmbXmlThrows(doc)
       THEN /\ cache' = IF options.cache
                        THEN CacheSet(cache, RatesCacheKey(url), parseTcmbXml(doc),
                                      RatesTtl(url), now)
                        ELSE cache
            /\ Finish(Returned(filterRates(parseTcmbXml(doc), options.rateType), FALSE),
                      targetDate, retries, lastError)
       ELSE RatesCatch(options, ErrorOf(outcome, TcmbXmlThrows(doc)))
    /\ UNCHANGED << now, api, options, startedAt, targetHour, hoursToTry, hourIdx,
                    isTargetToday, calls, ticks, args, found, lastSet, got,
                    input, output, server, peer >>

(***************************************************************************)
(* fetchHourlyRates (src/src/hourly-client.ts:67-161).                     *)
(***************************************************************************)
\* the hours of one day with fallbackToPreviousHour ignored
HoursOfDay_AlwaysFallsBack(fallbackToPreviousHour, hour) == getHoursToTry(hour)

\* the hours of one day (hourly-client.ts:91-93)
HoursOfDay(fallbackToPreviousHour, hour) ==
    IF fallbackToPreviousHour THEN getHoursToTry(hour) ELSE << hour >>

\* one pass of the for loop from its top to the await of fetch or to the
\* return of the cached records (hourly-client.ts:95-109)
HourlyTry(o, date, hour, hours, i, r, err) ==
    LET u == HourlyUrl(date, hours[i])
        cacheKey == HourlyCacheKey(u)
    IN  /\ targetHour' = hour
        /\ hoursToTry' = hours
        /\ hourIdx' = i
        /\ IF o.cache /\ CacheHit(cache, cacheKey, now)
           THEN /\ Finish(Returned(cache[cacheKey].data, TRUE), date, r, err)
                /\ cache' = cache
           ELSE /\ pc' = "fetch"
                /\ url' = u
                /\ attempts' = Append(attempts, u)
                /\ targetDate' = date
                /\ retries' = r
                /\ lastError' = err
                /\ result' = NoResult
                /\ cache' = IF o.cache THEN CacheAfterGet(cache, cacheKey, now) ELSE cache

\* getHourlyRates(options) = fetchHourlyRates(options), up to its first await
GetHourlyRates(o) ==
    /\ pc = "idle"
    /\ api' = "getHourlyRates"
    /\ options' = o
    /\ startedAt' = now
    /\ LET date == IF o.date = {} THEN DayOf(now) ELSE CHOOSE d \in o.date : TRUE
           hour == IF o.hour = "latest" THEN getLatestAvailableHour(now) ELSE o.hour
       IN  /\ isTargetToday' = isToday(date, now)
           /\ HourlyTry(o, date, hour, HoursOfDay(o.fallbackToPreviousHour, hour),
                        1, 0, "null")
    /\ UNCHANGED << now, calls, ticks >>

\* the move to the previous day without the reset of targetHour
PreviousDayHour_Kept(hour) == hour

\* hourly-client.ts:149: targetHour = '15:00' on the move to the previous day
PreviousDayHour(hour) == "15:00"

\* after a failed candidate: the next hour of the day, or the end of the for
\* loop and the previous day or the exit of the while loop
\* (hourly-client.ts:95, 146-160)
HourlyNext(o, err) ==
    IF hourIdx + 1 <= Len(hoursToTry)
    THEN HourlyTry(o, targetDate, targetHour, hoursToTry, hourIdx + 1, retries, err)
    ELSE IF o.fallbackToLastBusinessDay
            /\ retries < maxDayRetries(o.fallbackToLastBusinessDay)
         THEN HourlyTry(o, getPreviousDay(targetDate), PreviousDayHour(targetHour),
                        HoursOfDay(o.fallbackToPreviousHour, PreviousDayHour(targetHour)),
                        1, retries + 1, err)
         ELSE /\ Finish(Thrown("NoBusinessDayDataError"), targetDate, retries, err)
              /\ cache' = cache
              /\ UNCHANGED << targetHour, hoursToTry, hourIdx >>

\* the catch block without the throw of hourly-client.ts:140-142
HourlyCatch_SkipsOnAnyError(o, err) == HourlyNext(o, err)

\* the catch block (hourly-client.ts:131-143)
HourlyCatch(o, err) ==
    IF Is404(err) \/ o.fallbackToLastBusinessDay
    THEN HourlyNext(o, err)
    ELSE /\ Finish(Thrown("NetworkError"), targetDate, retries, err)
         /\ cache' = cache
         /\ UNCHANGED << targetHour, hoursToTry, hourIdx >>

\* the pending fetch of fetchHourlyRates settles (hourly-client.ts:109-143)
HourlyResponse(outcome, doc) ==
    /\ pc = "fetch"
    /\ api = "getHourlyRates"
    /\ IF outcome = "ok" /\ ~HourlyXmlThrows(doc)
       THEN /\ cache' = IF options.cache
                        THEN CacheSet(cache, HourlyCacheKey(url), parseHourlyXml(doc),
                                      determineCacheTtl(targetDate, hoursToTry[hourIdx],
                                                        isTargetToday, now),
                                      now)
                        ELSE cache
            /\ Finish(Returned(parseHourlyXml(doc), FALSE), targetDate, retries, lastError)
            /\ UNCHANGED << targetHour, hoursToTry, hourIdx >>
       ELSE IF outcome = "404"
       THEN HourlyNext(options, ErrorOf(outcome, FALSE))
       ELSE HourlyCatch(options, ErrorOf(outcome, HourlyXmlThrows(doc)))
    /\ UNCHANGED << now, api, options, startedAt, isTargetToday, calls, ticks,
                    args, found, lastSet, got,
                    input, output, server, peer >>

(***************************************************************************)
(* The environment: the clock advances; the caller takes the outcome of a  *)
(* call and may call again.                                                *)
(***************************************************************************)
\* time passes between two calls
Tick(step) ==
    /\ pc = "idle"
    /\ ticks < Len(calls)
    /\ now' = now + step
    /\ ticks' = ticks + 1
    /\ UNCHANGED << cache, pc, api, options, startedAt, targetDate, targetHour,
                    hoursToTry, hourIdx, retries, lastError, isTargetToday, url,
                    attempts, result, calls, args, found, lastSet, got,
                    input, output, server, peer >>

\* what is kept of a finished call
Summary ==
    [api |-> api, options |-> options, startedAt |-> startedAt, attempts |-> attempts,
     kind |-> result.kind, cached |-> result.cached]

Return ==
    /\ pc = "done"
    /\ Len(calls) + 1 < MaxCalls
    /\ calls' = Append(calls, Summary)
    /\ pc' = "idle"
    /\ api' = ""
    /\ options' = NoOptions
    /\ startedAt' = 0
    /\ targetDate' = 0
    /\ targetHour' = ""
    /\ hoursToTry' = << >>
    /\ hourIdx' = 0
    /\ retries' = 0
    /\ lastError' = "null"
    /\ isTargetToday' = FALSE
    /\ url' = NoUrl
    /\ attempts' = << >>
    /\ result' = NoResult
    /\ args' = NoArgs
    /\ found' = NoResult
    /\ UNCHANGED << now, cache, ticks, lastSet, got,
                    input, output, server, peer >>

(***************************************************************************)
(* Spec: one call of getRates or getHourlyRates, with every option.        *)
(***************************************************************************)
\* the variables a direct call of getRates / getHourlyRates leaves alone
aside == << args, found, lastSet, got,
                    input, output, server, peer >>

CallRates == \E o \in RatesOptions : GetRates(o) /\ UNCHANGED aside
CallHourly == \E o \in HourlyOptions : GetHourlyRates(o) /\ UNCHANGED aside
SettleRates == \E outcome \in Outcomes : \E doc \in ServedDocs(url, now) :
                   RatesResponse(outcome, doc)
SettleHourly == \E outcome \in Outcomes : \E doc \in ServedDocs(url, now) :
                    HourlyResponse(outcome, doc)
Advance == \E step \in TickSteps : Tick(step)

Next == CallRates \/ CallHourly \/ SettleRates \/ SettleHourly

Spec == Init /\ [][Next]_vars

\* the behaviours that start at 12:30 Istanbul time
InitNoon == Init /\ getLatestAvailableHour(now) = "12:00"

\* SpecHourlyFair: one call of getHourlyRates, with every option, and a
\* transport that settles every fetch it was handed
NextHourly == CallHourly \/ SettleHourly

SpecHourlyFair == InitNoon /\ [][NextHourly]_vars /\ WF_vars(SettleHourly)

(***************************************************************************)
(* SpecSeq: up to MaxCalls calls one after the other over the same cache,  *)
(* the clock advancing between them; the requests are for one day, without *)
(* day fallback.                                                           *)
(***************************************************************************)
SeqRatesOptions ==
    [date : { {PastDay} }, rateType : {"all"}, hour : {""},
     fallbackToLastBusinessDay : {FALSE}, fallbackToPreviousHour : {FALSE},
     cache : BOOLEAN]
SeqHourlyOptions ==
    [date : { {PastDay} }, rateType : {""}, hour : {"latest", "11:00", "12:00"},
     fallbackToLastBusinessDay : {FALSE}, fallbackToPreviousHour : {FALSE},
     cache : BOOLEAN]

SeqCallRates == \E o \in SeqRatesOptions : GetRates(o) /\ UNCHANGED aside
SeqCallHourly == \E o \in SeqHourlyOptions : GetHourlyRates(o) /\ UNCHANGED aside

NextSeq ==
    SeqCallRates \/ SeqCallHourly \/ SettleRates \/ SettleHourly \/ Advance \/ Return

SpecSeq == InitNoon /\ [][NextSeq]_vars

(***************************************************************************)
(* SpecDates: one call of getRates or getHourlyRates with a date string.   *)
(***************************************************************************)
TextRatesOptions ==
    [date : { {} }, rateType : {"all"}, hour : {""},
     fallbackToLastBusinessDay : BOOLEAN, fallbackToPreviousHour : {FALSE},
     cache : BOOLEAN]
TextHourlyOptions ==
    [date : { {} }, rateType : {""}, hour : {"latest", "11:00"},
     fallbackToLastBusinessDay : BOOLEAN, fallbackToPreviousHour : BOOLEAN,
     cache : BOOLEAN]

\* what a call with the date string text leaves alone and keeps of it
WithText(text) ==
    /\ args' = [NoArgs EXCEPT !.date = text]
    /\ UNCHANGED << found, lastSet, got,
                    input, output, server, peer >>

\* targetDate = normalizeDate(date) (client.ts:29, hourly-client.ts:78)
CallRatesText ==
    \E text \in DateTexts : \E o \in TextRatesOptions :
        GetRates([o EXCEPT !.date = { normalizeDate(text) }]) /\ WithText(text)
CallHourlyText ==
    \E text \in DateTexts : \E o \in TextHourlyOptions :
        GetHourlyRates([o EXCEPT !.date = { normalizeDate(text) }]) /\ WithText(text)

NextDates == CallRatesText \/ CallHourlyText \/ SettleRates \/ SettleHourly

SpecDates == InitNoon /\ [][NextDates]_vars

(***************************************************************************)
(* SpecLookup: one call of getRate or getHourlyRate over a cache that      *)
(* earlier calls have filled, two hours or twenty-five hours ago.          *)
(***************************************************************************)
\* the call throws before it reaches the fetch loop
ThrowInvalidCode ==
    /\ pc' = "done"
    /\ found' = Thrown("InvalidCurrencyCodeError")
    /\ UNCHANGED << now, cache, api, options, startedAt, targetDate, targetHour,
                    hoursToTry, hourIdx, retries, lastError, isTargetToday, url,
                    attempts, result, calls, ticks, lastSet, got,
                    input, output, server, peer >>

\* getRate(currencyCode, options) up to its await (index.ts:43-49)
GetRate(currencyCode, o) ==
    /\ pc = "idle"
    /\ args' = [NoArgs EXCEPT !.wrapper = "getRate", !.currencyCode = currencyCode]
    /\ IF IsEmptyCode(currencyCode)
       THEN ThrowInvalidCode
       ELSE GetRates(o) /\ UNCHANGED << found, lastSet, got,
                    input, output, server, peer >>

\* getHourlyRate(currencyCode, options) = fetchHourlyRate, up to its await
\* (hourly-client.ts:220-228)
GetHourlyRate(currencyCode, o) ==
    /\ pc = "idle"
    /\ args' = [NoArgs EXCEPT !.wrapper = "getHourlyRate", !.currencyCode = currencyCode]
    /\ IF IsEmptyCode(currencyCode)
       THEN ThrowInvalidCode
       ELSE GetHourlyRates(o) /\ UNCHANGED << found, lastSet, got,
                    input, output, server, peer >>

\* the fetch loop has ended: its error goes on to the caller, its records are
\* searched for the code (index.ts:49-51, hourly-client.ts:228-231)
RateReturn ==
    /\ pc = "done"
    /\ args.wrapper # ""
    /\ found.kind = "none"
    /\ result.kind # "none"
    /\ found' = IF result.kind = "error" THEN result
                ELSE Looked(FindRate(result.rates, ToUpperCase(args.currencyCode)))
    /\ UNCHANGED << now, cache, pc, api, options, startedAt, targetDate, targetHour,
                    hoursToTry, hourIdx, retries, lastError, isTargetToday, url,
                    attempts, result, calls, ticks, args, lastSet, got,
                    input, output, server, peer >>

\* the codes a caller asks for: none, USD in three casings, xdr, eur, gbp
LookupCodes ==
    { << >>, << "u", "s", "d" >>, << "U", "S", "D" >>, << "u", "S", "d" >>,
      << "x", "d", "r" >>, << "e", "u", "r" >>, << "g", "b", "p" >> }

LookupRatesOptions ==
    [date : { {PastDay} }, rateType : {"all", "banknote"}, hour : {""},
     fallbackToLastBusinessDay : {FALSE}, fallbackToPreviousHour : {FALSE},
     cache : BOOLEAN]
LookupHourlyOptions ==
    [date : { {PastDay} }, rateType : {""}, hour : {"11:00"},
     fallbackToLastBusinessDay : {FALSE}, fallbackToPreviousHour : {FALSE},
     cache : BOOLEAN]

\* the store after getRates and getHourlyRates fetched the documents of PastDay
\* at time t
SeededCache(t) ==
    CacheSet(CacheSet(EmptyCache, RatesCacheKey(DatedUrl(PastDay)),
                      parseTcmbXml(DailyDoc(PastDay, MaxEntries)), RatesTtl(DatedUrl(PastDay)),
                      t),
             HourlyCacheKey(HourlyUrl(PastDay, "11:00")),
             parseHourlyXml(HourlyDoc(PastDay, "11:00", MaxKur)), PAST_DAY, t)

InitLookup ==
    /\ now \in InitClocks
    /\ cache \in { SeededCache(now - step) : step \in TickSteps }
    /\ pc = "idle"
    /\ api = ""
    /\ options = NoOptions
    /\ startedAt = 0
    /\ targetDate = 0
    /\ targetHour = ""
    /\ hoursToTry = << >>
    /\ hourIdx = 0
    /\ retries = 0
    /\ lastError = "null"
    /\ isTargetToday = FALSE
    /\ url = NoUrl
    /\ attempts = << >>
    /\ result = NoResult
    /\ calls = << >>
    /\ ticks = 0
    /\ args = NoArgs
    /\ found = NoResult
    /\ lastSet = EmptyCache
    /\ got = NoGet
    /\ input = NoInput
    /\ output = NoResult
    /\ server = NoServer
    /\ peer = NoPeer

CallRate == \E code \in LookupCodes : \E o \in LookupRatesOptions : GetRate(code, o)
CallHourlyRate ==
    \E code \in LookupCodes : \E o \in LookupHourlyOptions : GetHourlyRate(code, o)

NextLookup == CallRate \/ CallHourlyRate \/ SettleRates \/ SettleHourly \/ RateReturn

SpecLookup == InitLookup /\ [][NextLookup]_vars

(***************************************************************************)
(* SpecConvert: one call of convert (src/src/index.ts:57-118) over the     *)
(* cache that earlier calls have filled.  A number of convert is kept as   *)
(* the quotient num / den of two integers; the rounding of the floating    *)
(* point operations is left out.                                           *)
(***************************************************************************)
\* the number n
Number(n) == [num |-> n, den |-> 1]
\* a * r, r a quote
Times(a, r) == [num |-> a.num * r, den |-> a.den]
\* a multiplication where convert divides
Over_Times(a, r) == [num |-> a.num * r, den |-> a.den]
\* a / r, r a quote
Over(a, r) == [num |-> a.num, den |-> a.den * r]

\* convert returned the number v
Amount(v) == [kind |-> "number", value |-> v, error |-> ""]

TRY == << "T", "R", "Y" >>

\* a comparison that never finds the two codes equal
SameCodes_Never(fromCode, toCode) == FALSE

\* fromCode === toCode (index.ts:66)
SameCodes(fromCode, toCode) == fromCode = toCode

\* getRateValue that reads forexBuying whatever field it is asked for
getRateValue_ForexBuying(rates, code, field) ==
    IF \A i \in 1..Len(rates) : rates[i].code # code THEN Null
    ELSE rates[CHOOSE i \in 1..Len(rates) : rates[i].code = code].forexBuying

\* getRateValue(code, field) (index.ts:72-81): the number, or Null where it
\* throws RateNotFoundError
getRateValue(rates, code, field) ==
    IF FindRate(rates, code) = {} THEN Null
    ELSE (CHOOSE rate \in FindRate(rates, code) : TRUE)[field]

\* convert after its await (index.ts:72-118), use = "" for no override
ConvertValue(rates, amount, fromCode, toCode, use) ==
    LET Field(default) == IF use = "" THEN default ELSE use
        ValueOf(r) == CHOOSE v \in r : TRUE
    IN IF fromCode = TRY
       THEN LET rateVal == getRateValue(rates, toCode, Field("forexSelling"))
            IN IF rateVal = Null THEN Thrown("RateNotFoundError")
               ELSE Amount(Over(amount, ValueOf(rateVal)))
       ELSE IF toCode = TRY
       THEN LET rateVal == getRateValue(rates, fromCode, Field("forexBuying"))
            IN IF rateVal = Null THEN Thrown("RateNotFoundError")
               ELSE Amount(Times(amount, ValueOf(rateVal)))
       ELSE LET rateFrom == getRateValue(rates, fromCode, Field("forexBuying"))
                rateTo == getRateValue(rates, toCode, Field("forexSelling"))
            IN IF rateFrom = Null \/ rateTo = Null THEN Thrown("RateNotFoundError")
               ELSE Amount(Over(Times(amount, ValueOf(rateFrom)), ValueOf(rateTo)))

\* convert(amount, from, to, options) up to its await or, for equal codes, to
\* its return (index.ts:57-70)
convert(amount, from, to, o) ==
    /\ pc = "idle"
    /\ input' = [fn |-> "convert", amount |-> amount, from |-> from, to |-> to,
                 use |-> o.use]
    /\ IF SameCodes(ToUpperCase(from), ToUpperCase(to))
       THEN /\ pc' = "done"
            /\ output' = Amount(Number(amount))
            /\ UNCHANGED << now, cache, api, options, startedAt, targetDate,
                            targetHour, hoursToTry, hourIdx, retries, lastError,
                            isTargetToday, url, attempts, result, calls, ticks,
                            args, found, lastSet, got, server, peer >>
       ELSE GetRates(o) /\ UNCHANGED << args, found, lastSet, got, output, server, peer >>

\* fetchRates has ended: its error goes on to the caller, its records are
\* converted with (index.ts:70-118)
ConvertReturn ==
    /\ pc = "done"
    /\ input.fn = "convert"
    /\ output.kind = "none"
    /\ result.kind # "none"
    /\ output' = IF result.kind = "error" THEN result
                 ELSE ConvertValue(result.rates, Number(input.amount),
                                   ToUpperCase(input.from), ToUpperCase(input.to),
                                   input.use)
    /\ UNCHANGED << now, cache, pc, api, options, startedAt, targetDate, targetHour,
                    hoursToTry, hourIdx, retries, lastError, isTargetToday, url,
                    attempts, result, calls, ticks, args, found, lastSet, got, input,
                    server, peer >>

\* the amounts and the codes a caller converts
ConvertAmounts == { 0, 7 }
ConvertCodes ==
    { << "t", "r", "y" >>, << "u", "s", "d" >>, << "U", "S", "D" >>,
      << "x", "d", "r" >>, << "e", "u", "r" >> }

\* ConvertOptions (types.ts:95-97) over the stored day, use = "" for none
ConvertOptions ==
    [date : { {PastDay} }, rateType : {"all", "banknote"}, hour : {""},
     fallbackToLastBusinessDay : {FALSE}, fallbackToPreviousHour : {FALSE},
     cache : BOOLEAN, use : {"", "forexBuying", "banknoteSelling"}]

CallConvert ==
    \E amount \in ConvertAmounts : \E from \in ConvertCodes : \E to \in ConvertCodes :
        \E o \in ConvertOptions : convert(amount, from, to, o)

NextConvert == CallConvert \/ SettleRates \/ ConvertReturn

SpecConvert == InitLookup /\ [][NextConvert]_vars

(***************************************************************************)
(* SpecFilter: one call of getRates for a stored or a fetched day whose    *)
(* document holds entries with and without forex and banknote quotes.      *)
(***************************************************************************)
\* entries with every quote, with a forex quote only, with a banknote quote
\* only, with no quote
MixedEntries ==
    << DailyEntries[1], DailyEntries[2],
       [code |-> << "G", "B", "P" >>, ForexBuying |-> << >>, ForexSelling |-> << >>,
        BanknoteBuying |-> << 4, 1 >>, BanknoteSelling |-> << >>,
        CrossRateUSD |-> << >>, CrossRateOther |-> << 1 >>],
       [code |-> << "X", "X", "X" >>, ForexBuying |-> << >>, ForexSelling |-> << >>,
        BanknoteBuying |-> << >>, BanknoteSelling |-> << >>,
        CrossRateUSD |-> << >>, CrossRateOther |-> << >>] >>

\* the documents of a day with up to MaxEntries of these entries, in any order
MixedDocs(day) ==
    { [DailyDoc(day, 0) EXCEPT !.entries = [i \in DOMAIN pick |-> MixedEntries[pick[i]]]] :
          pick \in UNION { [1..n -> 1..Len(MixedEntries)] : n \in 0..MaxEntries } }

FilterOptions ==
    [date : { {PastDay} }, rateType : {"all", "forex", "banknote"}, hour : {""},
     fallbackToLastBusinessDay : {FALSE}, fallbackToPreviousHour : {FALSE},
     cache : BOOLEAN]

\* the cache is empty, or an earlier call stored the records of PastDay
InitFilter ==
    /\ now \in InitClocks
    /\ cache \in { EmptyCache } \cup
                 { CacheSet(EmptyCache, RatesCacheKey(DatedUrl(PastDay)), parseTcmbXml(doc),
                            RatesTtl(DatedUrl(PastDay)), now - 7200) :
                       doc \in { d \in MixedDocs(PastDay) : ~TcmbXmlThrows(d) } }
    /\ pc = "idle"
    /\ api = ""
    /\ options = NoOptions
    /\ startedAt = 0
    /\ targetDate = 0
    /\ targetHour = ""
    /\ hoursToTry = << >>
    /\ hourIdx = 0
    /\ retries = 0
    /\ lastError = "null"
    /\ isTargetToday = FALSE
    /\ url = NoUrl
    /\ attempts = << >>
    /\ result = NoResult
    /\ calls = << >>
    /\ ticks = 0
    /\ args = NoArgs
    /\ found = NoResult
    /\ lastSet = EmptyCache
    /\ got = NoGet
    /\ input = NoInput
    /\ output = NoResult
    /\ server = NoServer
    /\ peer = NoPeer

CallRatesFiltered ==
    \E o \in FilterOptions : GetRates(o) /\ UNCHANGED << aside, input, output, server, peer >>
SettleRatesMixed ==
    \E outcome \in Outcomes : \E doc \in MixedDocs(url.day) : RatesResponse(outcome, doc)

NextFilter == CallRatesFiltered \/ SettleRatesMixed

SpecFilter == InitFilter /\ [][NextFilter]_vars

(***************************************************************************)
(* SpecCache: a caller of InMemoryCache alone: set, get and clear in any    *)
(* order, the clock advancing in between.                                  *)
(***************************************************************************)
\* the variables of the fetch loops and of their callers
engine == << pc, api, options, startedAt, targetDate, targetHour, hoursToTry,
             hourIdx, retries, lastError, isTargetToday, url, attempts, result,
             calls, args, found >>

CacheKeys ==
    { RatesCacheKey(DatedUrl(PastDay)), HourlyCacheKey(HourlyUrl(PastDay, "11:00")) }
CachePayloads == { parseHourlyXml(HourlyDoc(PastDay, "11:00", n)) : n \in 0..MaxKur }
CacheTtls == { CURRENT_HOUR, PAST_HOUR }
\* the clock advances by as much as a time to live
CacheSteps == { CURRENT_HOUR, PAST_HOUR }

\* globalCache.set(key, data, ttlSeconds)
SetEntry(key, data, ttlSeconds) ==
    /\ cache' = CacheSet(cache, key, data, ttlSeconds, now)
    /\ lastSet' = [k \in DOMAIN lastSet \cup {key} |->
                      IF k = key THEN [data |-> data, at |-> now, ttl |-> ttlSeconds]
                      ELSE lastSet[k]]
    /\ got' = NoGet
    /\ UNCHANGED << now, ticks >>
    /\ UNCHANGED << engine, input, output, server, peer >>

\* globalCache.get(key)
GetEntry(key) ==
    /\ got' = [asked |-> TRUE, key |-> key, value |-> CacheGet(cache, key, now)]
    /\ cache' = CacheAfterGet(cache, key, now)
    /\ UNCHANGED << now, ticks, lastSet >>
    /\ UNCHANGED << engine, input, output, server, peer >>

\* globalCache.clear()
ClearAll ==
    /\ cache' = EmptyCache
    /\ lastSet' = EmptyCache
    /\ got' = NoGet
    /\ UNCHANGED << now, ticks >>
    /\ UNCHANGED << engine, input, output, server, peer >>

\* time passes between two operations
Elapse(step) ==
    /\ ticks < MaxTicks
    /\ now' = now + step
    /\ ticks' = ticks + 1
    /\ got' = NoGet
    /\ UNCHANGED << cache, lastSet >>
    /\ UNCHANGED << engine, input, output, server, peer >>

CacheSets == \E key \in CacheKeys : \E data \in CachePayloads : \E ttl \in CacheTtls :
                 SetEntry(key, data, ttl)
CacheGets == \E key \in CacheKeys : GetEntry(key)
CacheElapses == \E step \in CacheSteps : Elapse(step)

NextCache == CacheSets \/ CacheGets \/ ClearAll \/ CacheElapses

SpecCache == InitNoon /\ [][NextCache]_vars

(***************************************************************************)
(* SpecHours: getHoursToTry and getLatestAvailableHour                     *)
(* (src/src/utils/date.ts:117-147) applied to the start hours a caller may *)
(* pass and at every hour of the day.                                      *)
(***************************************************************************)
\* no call is running and none has run
NoCall ==
    /\ pc = "idle"
    /\ api = ""
    /\ options = NoOptions
    /\ startedAt = 0
    /\ targetDate = 0
    /\ targetHour = ""
    /\ hoursToTry = << >>
    /\ hourIdx = 0
    /\ retries = 0
    /\ lastError = "null"
    /\ isTargetToday = FALSE
    /\ url = NoUrl
    /\ attempts = << >>
    /\ result = NoResult
    /\ calls = << >>
    /\ ticks = 0
    /\ args = NoArgs
    /\ found = NoResult
    /\ lastSet = EmptyCache
    /\ got = NoGet

\* the variables a utility function of date.ts leaves alone
codec == << now, cache, engine, ticks, lastSet, got, server, peer >>

\* the clock in the middle of each hour of StartDay (UTC)
HourClocks == { StartDay * 86400 + utc * 3600 + 1800 : utc \in 0..23 }
\* the start hours: the six slots and texts that are no slot
StartHours == HourInputs \cup { "09:00", "16:00", "" }

InitHours ==
    /\ NoCall
    /\ now \in HourClocks
    /\ cache = EmptyCache
    /\ input \in [fn : {""}, hour : StartHours]
    /\ output = NoResult
    /\ server = NoServer
    /\ peer = NoPeer

ApplyHoursToTry ==
    /\ input.fn = ""
    /\ input' = [input EXCEPT !.fn = "getHoursToTry"]
    /\ output' = [kind |-> "hours", hours |-> getHoursToTry(input.hour)]
    /\ UNCHANGED codec

ApplyLatestAvailableHour ==
    /\ input.fn = ""
    /\ input' = [input EXCEPT !.fn = "getLatestAvailableHour"]
    /\ output' = [kind |-> "hour", hour |-> getLatestAvailableHour(now)]
    /\ UNCHANGED codec

NextHours == ApplyHoursToTry \/ ApplyLatestAvailableHour

SpecHours == InitHours /\ [][NextHours]_vars

(***************************************************************************)
(* SpecPaths: formatDateForTcmb and formatDateForHourly                    *)
(* (src/src/utils/date.ts:27-38, 82-93) applied to calendar days of three  *)
(* years, one of them a leap year, and to the six slots.                   *)
(***************************************************************************)
PathYears == { 2024, 2025, 2026 }
PathMonths == { 1, 2, 11, 12 }
PathDays == { 1, 2, 11, 12, 28, 29, 30, 31 }

\* the days of month m of year y
DaysIn(y, m) ==
    IF m = 2 THEN (IF y % 4 = 0 /\ (y % 100 # 0 \/ y % 400 = 0) THEN 29 ELSE 28)
    ELSE IF m \in { 4, 6, 9, 11 } THEN 30 ELSE 31

\* the calendar days the paths are formatted for
PathDates ==
    { date \in [y : PathYears, m : PathMonths, d : PathDays] :
          date.d <= DaysIn(date.y, date.m) }

InitPaths ==
    /\ NoCall
    /\ now \in InitClocks
    /\ cache = EmptyCache
    /\ input \in [fn : {""}, date : PathDates,
                  hour : { VALID_HOURS[i] : i \in 1..Len(VALID_HOURS) }]
    /\ output = NoResult
    /\ server = NoServer
    /\ peer = NoPeer

ApplyFormatDateForTcmb ==
    /\ input.fn = ""
    /\ input' = [input EXCEPT !.fn = "formatDateForTcmb"]
    /\ output' = [kind |-> "path", path |-> formatDateForTcmb(input.date)]
    /\ UNCHANGED codec

ApplyFormatDateForHourly ==
    /\ input.fn = ""
    /\ input' = [input EXCEPT !.fn = "formatDateForHourly"]
    /\ output' = [kind |-> "path", path |-> formatDateForHourly(input.date, input.hour)]
    /\ UNCHANGED codec

NextPaths == ApplyFormatDateForTcmb \/ ApplyFormatDateForHourly

SpecPaths == InitPaths /\ [][NextPaths]_vars

(***************************************************************************)
(* SpecDecode: parseTcmbXml and parseHourlyXml (src/src/parser.ts) applied *)
(* to documents with and without their container nodes, with no entry and  *)
(* with entries whose numeric fields are blank, a number, zero, or text    *)
(* that is no number.                                                      *)
(***************************************************************************)
\* the texts of a numeric field: blank, 28, 0, 'x', '2x'
FieldTexts == { << >>, << 2, 8 >>, << 0 >>, << X >>, << 2, X >> }

\* one <Currency> entry for each choice of three of its fields
DecodeEntries ==
    { [code |-> << "U", "S", "D" >>, ForexBuying |-> a, ForexSelling |-> << 2, 9 >>,
       BanknoteBuying |-> << >>, BanknoteSelling |-> b,
       CrossRateUSD |-> c, CrossRateOther |-> << >>] : a, b, c \in FieldTexts }

\* the daily documents: without the container nodes, without an entry, with
\* one entry
DecodeDailyDocs ==
    { BrokenDoc(TCMB_BASE_URL), DailyDoc(PastDay, 0) }
    \cup { [DailyDoc(PastDay, 0) EXCEPT !.entries = << e >>] : e \in DecodeEntries }

\* the hourly documents: with and without tcmbVeri, baslik_bilgi and
\* doviz_kur_liste, with up to MaxKur entries
DecodeHourlyDocs ==
    { BrokenDoc(TCMB_HOURLY_BASE_URL) }
    \cup { [HourlyDoc(PastDay, VALID_HOURS[i], n) EXCEPT
                !.header = h, !.liste = l,
                !.entries = IF l THEN @ ELSE << >>,
                !.date = IF l THEN @ ELSE << >>,
                !.saat = IF l THEN @ ELSE ""] :
               i \in 1..Len(VALID_HOURS), n \in 0..MaxKur, h \in BOOLEAN, l \in BOOLEAN }

InitDecode ==
    /\ NoCall
    /\ now \in InitClocks
    /\ cache = EmptyCache
    /\ input \in [fn : {""}, doc : DecodeDailyDocs \cup DecodeHourlyDocs]
    /\ output = NoResult
    /\ server = NoServer
    /\ peer = NoPeer

ApplyParseTcmbXml ==
    /\ input.fn = ""
    /\ input.doc.feed = TCMB_BASE_URL
    /\ input' = [input EXCEPT !.fn = "parseTcmbXml"]
    /\ output' = IF TcmbXmlThrows(input.doc) THEN Thrown("ParseError")
                 ELSE Returned(parseTcmbXml(input.doc), FALSE)
    /\ UNCHANGED codec

ApplyParseHourlyXml ==
    /\ input.fn = ""
    /\ input.doc.feed = TCMB_HOURLY_BASE_URL
    /\ input' = [input EXCEPT !.fn = "parseHourlyXml"]
    /\ output' = IF HourlyXmlThrows(input.doc) THEN Thrown("ParseError")
                 ELSE Returned(parseHourlyXml(input.doc), FALSE)
    /\ UNCHANGED codec

NextDecode == ApplyParseTcmbXml \/ ApplyParseHourlyXml

SpecDecode == InitDecode /\ [][NextDecode]_vars

(***************************************************************************)
(* Properties.  What a call was asked for, read off its options and the    *)
(* clock reading it started at.                                            *)
(***************************************************************************)
\* the day the caller asked for: the given date, else the day of the call
RequestedDay(o, t) == IF o.date = {} THEN DayOf(t) ELSE CHOOSE d \in o.date : TRUE

\* the hour the caller asked for: the given slot, else the latest slot
RequestedHour(o, t) == IF o.hour = "latest" THEN getLatestAvailableHour(t) ELSE o.hour

\* the position of a slot in the day: 1 for 10:00 up to 6 for 15:00, which is
\* also the number of slots from it down to 10:00
SlotNo(hour) ==
    CASE hour = "10:00" -> 1 [] hour = "11:00" -> 2 [] hour = "12:00" -> 3
      [] hour = "13:00" -> 4 [] hour = "14:00" -> 5 [] hour = "15:00" -> 6
      [] OTHER -> 0

Hourly == api = "getHourlyRates"
Daily == api = "getRates"

\* C1: with both fallbacks enabled the attempts of a call of getHourlyRates
\* start at the requested day and hour, go down the slots of a day one by one,
\* and move to the day before only after the 10:00 slot of the current day
C1_HoursDescendBeforeDay ==
    (Hourly /\ options.fallbackToLastBusinessDay /\ options.fallbackToPreviousHour) =>
        /\ attempts # << >> =>
               attempts[1] = HourlyUrl(RequestedDay(options, startedAt),
                                       RequestedHour(options, startedAt))
        /\ \A i \in 1..(Len(attempts) - 1) :
               \/ /\ attempts[i + 1].day = attempts[i].day
                  /\ SlotNo(attempts[i + 1].hour) = SlotNo(attempts[i].hour) - 1
               \/ /\ attempts[i + 1].day = attempts[i].day - 1
                  /\ attempts[i].hour = "10:00"

\* a call that went through all the slots of two days and reached a third
C1_Witness ==
    /\ Hourly /\ options.fallbackToLastBusinessDay /\ options.fallbackToPreviousHour
    /\ options.hour = "13:00"
    /\ Len(attempts) = 11
    /\ attempts[11].day = RequestedDay(options, startedAt) - 2

\* C2: in getHourlyRates only the first day starts from the requested hour;
\* every attempt that opens an earlier day is for 15:00
C2_LaterDaysStartAtLatestSlot ==
    Hourly =>
        /\ attempts # << >> =>
               attempts[1] = HourlyUrl(RequestedDay(options, startedAt),
                                       RequestedHour(options, startedAt))
        /\ \A i \in 1..(Len(attempts) - 1) :
               attempts[i + 1].day # attempts[i].day => attempts[i + 1].hour = "15:00"
        /\ (pc = "fetch" /\ retries > 0) => targetHour = "15:00"

\* a request for 11:00 whose search is on an earlier day, at 15:00
C2_Witness ==
    /\ Hourly /\ pc = "fetch" /\ options.hour = "11:00"
    /\ retries = 2
    /\ url.hour = "15:00"
    /\ url.day = RequestedDay(options, startedAt) - 2

\* the attempts that exhaust k days of a request for a given hour
ExhaustedAttempts(hour, k) ==
    IF k = 0 THEN 0 ELSE SlotNo(hour) + Len(VALID_HOURS) * (k - 1)

\* C3: with both fallbacks enabled and caching off, a call of getHourlyRates
\* whose candidates of the first k days all failed and whose first candidate
\* of the next day succeeded made as many transport calls as the slots from
\* the requested hour down to 10:00, plus 6 for each further exhausted day,
\* plus one
C3_AttemptCount ==
    ( /\ Hourly /\ pc = "done"
      /\ options.fallbackToLastBusinessDay /\ options.fallbackToPreviousHour
      /\ ~options.cache
      /\ result.kind = "rates" /\ hourIdx = 1 ) =>
        Len(attempts) = ExhaustedAttempts(RequestedHour(options, startedAt), retries) + 1

\* three days of 404 answers after a request for 15:00, then a document: 19 calls
C3_Witness ==
    /\ Hourly /\ pc = "done"
    /\ options.fallbackToLastBusinessDay /\ options.fallbackToPreviousHour
    /\ ~options.cache /\ options.hour = "15:00"
    /\ result.kind = "rates" /\ hourIdx = 1 /\ retries = 3
    /\ lastError = "TcmbResponseError404"
    /\ Len(attempts) = 19

\* the dated urls of k + 1 consecutive days, from day d backwards
DaysBack(d, k) == [i \in 1..(k + 1) |-> DatedUrl(d - (i - 1))]

\* C4: getRates with an explicit date d, fallback enabled and caching off,
\* whose documents of d .. d-(k-1) are missing and whose document of d-k
\* exists (k <= 15), fetched exactly the dated urls of d, d-1, .., d-k in that
\* order, once each, and returns the records of the document of d-k
C4_DailyFallbackOrder ==
    ( /\ Daily /\ options.date # {} /\ options.fallbackToLastBusinessDay
      /\ ~options.cache ) =>
        /\ pc = "fetch" => attempts = DaysBack(RequestedDay(options, startedAt), retries)
        /\ (pc = "done" /\ result.kind = "rates") =>
               /\ retries <= 15
               /\ attempts = DaysBack(RequestedDay(options, startedAt), retries)
               /\ ~result.cached
               /\ \A i \in 1..Len(result.rates) :
                      result.rates[i].raw.day = RequestedDay(options, startedAt) - retries
               /\ options.rateType = "all" => result.rates # << >>

\* the documents of d, d-1 are missing (404), the one of d-2 is returned
C4_Witness ==
    /\ Daily /\ options.date = {PastDay} /\ options.fallbackToLastBusinessDay
    /\ ~options.cache /\ options.rateType = "all"
    /\ pc = "done" /\ result.kind = "rates" /\ retries = 2
    /\ lastError = "TcmbResponseError404"
    /\ attempts = << DatedUrl(PastDay), DatedUrl(PastDay - 1), DatedUrl(PastDay - 2) >>
    /\ Len(result.rates) = 2
    /\ result.rates[1].raw.day = PastDay - 2

\* the url of the first attempt of a call of getRates
FirstRatesUrl(o, t) ==
    IF o.date = {} THEN TodayUrl ELSE DatedUrl(RequestedDay(o, t))

\* C5: getRates with fallbackToLastBusinessDay = false makes one transport
\* attempt at most, for the requested document, and when that attempt returns
\* 404 the call fails with NoBusinessDayDataError
C5_NoFallbackOneAttempt ==
    (Daily /\ ~options.fallbackToLastBusinessDay) =>
        /\ Len(attempts) <= 1
        /\ attempts # << >> => attempts[1] = FirstRatesUrl(options, startedAt)
        /\ (pc = "done" /\ lastError = "TcmbResponseError404") =>
               /\ result = Thrown("NoBusinessDayDataError")
               /\ Len(attempts) = 1

\* the single candidate returned 404
C5_Witness ==
    /\ Daily /\ ~options.fallbackToLastBusinessDay /\ options.date = {PastDay}
    /\ pc = "done" /\ lastError = "TcmbResponseError404"
    /\ attempts = << DatedUrl(PastDay) >>
    /\ result.error = "NoBusinessDayDataError"

\* C6: getHourlyRates with fallbackToLastBusinessDay = false attempts no date
\* but the requested one, and when every candidate of that day returns 404 it
\* fails with NoBusinessDayDataError after one attempt if
\* fallbackToPreviousHour is false too, else after the slots from the
\* requested hour down to 10:00.  (Without day fallback a failure other than
\* 404 ends the call, so a call that ends on a 404 saw nothing but 404.)
C6_NoDayFallbackOneDay ==
    (Hourly /\ ~options.fallbackToLastBusinessDay) =>
        /\ \A i \in 1..Len(attempts) :
               attempts[i].day = RequestedDay(options, startedAt)
        /\ (pc = "done" /\ result.kind = "error" /\ lastError = "TcmbResponseError404") =>
               /\ result.error = "NoBusinessDayDataError"
               /\ Len(attempts) = IF options.fallbackToPreviousHour
                                  THEN SlotNo(RequestedHour(options, startedAt))
                                  ELSE 1
        /\ (pc = "done" /\ result.error = "NoBusinessDayDataError") =>
               lastError = "TcmbResponseError404"

\* a request for 13:00 with hour fallback only: four 404 answers
C6_Witness ==
    /\ Hourly /\ ~options.fallbackToLastBusinessDay /\ options.fallbackToPreviousHour
    /\ options.hour = "13:00"
    /\ pc = "done" /\ result.error = "NoBusinessDayDataError"
    /\ Len(attempts) = 4
    /\ attempts[4] = HourlyUrl(RequestedDay(options, startedAt), "10:00")

\* C7: getRates with fallback enabled on an empty cache makes 16 transport
\* attempts at most, attempt i for the day i-1 days before the requested one,
\* no url twice; when every attempt fails it makes exactly 16 and then fails
\* with NoBusinessDayDataError
C7_DailyBudget ==
    (Daily /\ options.fallbackToLastBusinessDay) =>
        /\ Len(attempts) <= 16
        /\ attempts # << >> => attempts[1] = FirstRatesUrl(options, startedAt)
        /\ \A i \in 2..Len(attempts) :
               attempts[i] = DatedUrl(RequestedDay(options, startedAt) - (i - 1))
        /\ \A i, j \in 1..Len(attempts) : i # j => attempts[i] # attempts[j]
        /\ (pc = "done" /\ result.kind = "error") =>
               /\ result.error = "NoBusinessDayDataError"
               /\ Len(attempts) = 16
               /\ retries = 16

\* sixteen failed attempts from today.xml back to the document 15 days ago
C7_Witness ==
    /\ Daily /\ options.fallbackToLastBusinessDay /\ options.date = {} /\ options.cache
    /\ pc = "done" /\ result.error = "NoBusinessDayDataError"
    /\ cache = EmptyCache
    /\ Len(attempts) = 16
    /\ attempts[1] = TodayUrl
    /\ attempts[16] = DatedUrl(DayOf(startedAt) - 15)

\* the days a call attempted, and its attempts for one day
AttemptedDays == { attempts[i].day : i \in 1..Len(attempts) }
AttemptsOfDay(d) == { i \in 1..Len(attempts) : attempts[i].day = d }

\* a call of getHourlyRates attempts at most 16 days, at most 6 slots of a day,
\* no candidate twice, at most 96 candidates in all
HourlyBudget ==
    Hourly =>
        /\ Cardinality(AttemptedDays) <= 16
        /\ \A d \in AttemptedDays : Cardinality(AttemptsOfDay(d)) <= 6
        /\ \A i, j \in 1..Len(attempts) : i # j => attempts[i] # attempts[j]
        /\ Len(attempts) <= 96
        /\ pc = "fetch" => ENABLED SettleHourly

\* C8 as stated: every call of getHourlyRates whose transport calls complete
\* ends, within 16 days, 6 slots a day and 96 attempts, and a call in which no
\* candidate succeeds ends with NoBusinessDayDataError
C8_AlwaysNoBusinessDayDataError ==
    /\ HourlyBudget
    /\ (Hourly /\ pc = "done" /\ result.kind = "error") =>
           result.error = "NoBusinessDayDataError"

\* C8 amended: every call of getHourlyRates whose transport calls complete
\* ends, within 16 days, 6 slots a day and 96 attempts; a call in which no
\* candidate succeeds ends with NoBusinessDayDataError, except that with
\* fallbackToLastBusinessDay = false a failure other than 404 ends it at once
\* with NetworkError
C8_HourlyEnds ==
    /\ [](HourlyBudget)
    /\ []((Hourly /\ pc = "done" /\ result.kind = "error") =>
            \/ /\ result.error = "NoBusinessDayDataError"
               /\ options.fallbackToLastBusinessDay \/ lastError = "TcmbResponseError404"
            \/ /\ result.error = "NetworkError"
               /\ ~options.fallbackToLastBusinessDay
               /\ lastError # "TcmbResponseError404")
    /\ ((Hourly /\ pc = "fetch") ~> (Hourly /\ pc = "done"))

\* a request for 15:00 that failed on all 6 slots of all 16 days
C8_Witness ==
    /\ Hourly /\ pc = "done"
    /\ Len(attempts) = 96
    /\ Cardinality(AttemptedDays) = 16
    /\ result.error = "NoBusinessDayDataError"

\* the candidate a call asks for first: the url of its first attempt, were the
\* cache empty
Candidate ==
    IF Hourly
    THEN HourlyUrl(RequestedDay(options, startedAt), RequestedHour(options, startedAt))
    ELSE FirstRatesUrl(options, startedAt)

\* the running call has ended with records and at least one call ended before it
SecondCallReturned == pc = "done" /\ result.kind = "rates" /\ calls # << >>

\* the call before the running one
Previous == calls[Len(calls)]

\* two option records that differ in the hour and in nothing else
DifferOnlyByHour(o1, o2) == o1.hour # o2.hour /\ [o1 EXCEPT !.hour = o2.hour] = o2

FetchedBefore(u) ==
    \E i \in 1..Len(calls) :
        /\ calls[i].options.cache
        /\ calls[i].kind = "rates"
        /\ calls[i].attempts = << u >>
        /\ now <= calls[i].startedAt + PAST_DAY

C10_RecordDateIsDocumentDate ==
    (pc = "done" /\ result.kind = "rates") =>
        \A i \in 1..Len(result.rates) :
            /\ result.rates[i].date = toISODate(result.rates[i].raw.day)
            /\ attempts # << >> /\ ~attempts[Len(attempts)].today =>
                   result.rates[i].raw.day = attempts[Len(attempts)].day

\* after a fallback of two days the records carry the date of the earlier
\* document, not the requested one
C10_Witness ==
    /\ Daily /\ pc = "done" /\ result.kind = "rates"
    /\ options.date = {PastDay} /\ retries = 2
    /\ result.rates # << >>
    /\ result.rates[1].date = toISODate(PastDay - 2)
    /\ result.rates[1].date # toISODate(RequestedDay(options, startedAt))

\* C11 as stated: once the caller's signal has aborted the pending fetch of
\* getRates or getHourlyRates (the fetch rejects with AbortError), the call has
\* ended in failure; no further candidate is fetched
C11_AbortIsTerminal ==
    lastError = "AbortError" => (pc = "done" /\ result.kind = "error")

\* C12 as stated: once a retrieved document failed to decode in getRates, the
\* call has ended in failure; no earlier day is fetched, with
\* fallbackToLastBusinessDay enabled or not
C12_DailyParseErrorIsFatal ==
    (Daily /\ lastError = "ParseError") => (pc = "done" /\ result.kind = "error")

\* C13 as stated: once a retrieved document failed to decode in
\* getHourlyRates, the call has ended in failure; no further hour or day is
\* fetched
C13_HourlyParseErrorIsFatal ==
    (Hourly /\ lastError = "ParseError") => (pc = "done" /\ result.kind = "error")

\* the errors of a fetch that found no document, and those of a transport
\* failure other than 404: another status, a rejected fetch
NotFoundOrTransport == { "TcmbResponseError404", "TcmbResponseError", "TypeError" }
TransportOnly == { "TcmbResponseError", "TypeError" }

\* the candidate after u in the search of getHourlyRates with options o
HourlySuccessor(u, o) ==
    IF o.fallbackToPreviousHour /\ SlotNo(u.hour) > 1
    THEN HourlyUrl(u.day, VALID_HOURS[SlotNo(u.hour) - 1])
    ELSE HourlyUrl(u.day - 1, "15:00")

\* C14: after a transport failure other than 404, in getRates and
\* getHourlyRates: without day fallback the call has ended with NetworkError
\* and the failed candidate is its last attempt (the lower hours of the day
\* stay unattempted); with day fallback the error is in lastError and the
\* search is at the candidate that follows the failed one, the same candidate
\* as after a 404, or has ended with NoBusinessDayDataError on the last
\* candidate of the budget
C14_TransportFailure ==
    /\ (lastError \in TransportOnly /\ ~options.fallbackToLastBusinessDay) =>
           /\ pc = "done"
           /\ result = Thrown("NetworkError")
           /\ Daily => Len(attempts) = 1
           /\ Hourly =>
                  /\ Len(attempts) = hourIdx
                  /\ \A i \in 1..Len(attempts) :
                         attempts[i] = HourlyUrl(RequestedDay(options, startedAt),
                                                 hoursToTry[i])
    /\ (lastError \in NotFoundOrTransport /\ options.fallbackToLastBusinessDay) =>
           /\ pc = "fetch" =>
                  /\ Len(attempts) >= 2
                  /\ Daily => attempts[Len(attempts)] =
                                  DatedUrl(RequestedDay(options, startedAt)
                                           - (Len(attempts) - 1))
                  /\ Hourly => attempts[Len(attempts)] =
                                   HourlySuccessor(attempts[Len(attempts) - 1], options)
           /\ (pc = "done" /\ result.kind = "error") =>
                  /\ result.error = "NoBusinessDayDataError"
                  /\ Daily => Len(attempts) = 16
                  /\ Hourly => /\ retries = MAX_DAY_RETRIES
                               /\ attempts[Len(attempts)].hour =
                                      hoursToTry[Len(hoursToTry)]
                               /\ attempts[Len(attempts)].day =
                                      RequestedDay(options, startedAt) - MAX_DAY_RETRIES

\* a request for 13:00 with hour fallback only: 13:00 is missing, the fetch of
\* 12:00 is rejected, 11:00 and 10:00 are never asked for
C14_Witness ==
    /\ Hourly /\ ~options.fallbackToLastBusinessDay /\ options.fallbackToPreviousHour
    /\ options.hour = "13:00"
    /\ pc = "done" /\ result.error = "NetworkError"
    /\ lastError = "TypeError"
    /\ Len(attempts) = 2
    /\ attempts[2].hour = "12:00"

\* a call that has just fetched a document and stored its records
Stored ==
    pc = "done" /\ result.kind = "rates" /\ ~result.cached /\ options.cache

\* the time to live of the entry the call stored; the clock has not moved
\* since the write
StoredTtl(key) == cache[key].expiresAt - now

\* C16 as stated: every cache write of getRates has a time to live of 300
\* seconds exactly when the target date of the written document is the
\* current day, the date defaulted or given by the caller, and of 86400
\* seconds otherwise
C16_DailyTtlByResolvedDate ==
    (Daily /\ Stored) =>
        StoredTtl(RatesCacheKey(attempts[Len(attempts)])) =
            IF isToday(targetDate, now) THEN 300 ELSE 86400

\* C17 as stated: every cache write of getHourlyRates has a time to live that
\* follows the target date at the moment of the fetch: 86400 seconds for a
\* past day, for the current day 120 seconds for the currently active slot and
\* 3600 seconds for another slot
C17_HourlyTtlByResolvedDate ==
    (Hourly /\ Stored) =>
        StoredTtl(HourlyCacheKey(attempts[Len(attempts)])) =
            IF ~isToday(targetDate, now) THEN 86400
            ELSE IF attempts[Len(attempts)].hour = getLatestAvailableHour(now) THEN 120
            ELSE 3600

\* the latest set of the key since the last clear has not expired
Live(key) ==
    /\ key \in DOMAIN lastSet
    /\ ~(now > lastSet[key].at + lastSet[key].ttl)

\* C18: after any sequence of set, get, clear and clock advances, get(key)
\* returns the payload of the latest set(key, payload, ttl) when the clock has
\* not passed that set's time plus ttl and no clear happened since, and null
\* otherwise; a get of an expired key removes the key; the store holds no
\* entry but for a set since the last clear, with that set's expiry instant
C18_GetReturnsLatestLiveSet ==
    /\ got.asked =>
           /\ got.value = IF Live(got.key) THEN { lastSet[got.key].data } ELSE {}
           /\ ~Live(got.key) => got.key \notin DOMAIN cache
    /\ \A k \in DOMAIN cache :
           /\ k \in DOMAIN lastSet
           /\ cache[k].data = lastSet[k].data
           /\ cache[k].expiresAt = lastSet[k].at + lastSet[k].ttl

\* a get of a key whose entry has expired: null, and the key is gone while
\* the other key, set for longer, is still stored
C18_Witness ==
    /\ got.asked /\ got.value = {}
    /\ got.key \in DOMAIN lastSet
    /\ lastSet[got.key].data # << >>
    /\ got.key \notin DOMAIN cache
    /\ DOMAIN cache # {}

\* year, month and day as 4, 2 and 2 digits of a day that exists
WellFormed(y, m, d) ==
    /\ Len(y) = 4 /\ Len(m) = 2 /\ Len(d) = 2
    /\ Num(m) \in 1..12
    /\ Num(d) \in 1..DaysInMonth[Num(m)]

\* the text is a valid YYYY-MM-DD or DD.MM.YYYY date
IsValidDateText(text) ==
    /\ Len(text.parts) = 3
    /\ \/ text.sep = "-" /\ WellFormed(text.parts[1], text.parts[2], text.parts[3])
       \/ text.sep = "." /\ WellFormed(text.parts[3], text.parts[2], text.parts[1])

\* C15 as stated: a call of getRates or getHourlyRates whose options.date is a
\* string that is neither a valid YYYY-MM-DD nor a valid DD.MM.YYYY date has
\* failed at once: it is over, with an error, and nothing was fetched
C15_InvalidDateFailsAtOnce ==
    (args.date # NoText /\ ~IsValidDateText(args.date)) =>
        /\ pc = "done"
        /\ result.kind = "error"
        /\ attempts = << >>

\* a call of getRate or getHourlyRate
SingleRate == args.wrapper # ""

\* C19: getRate and getHourlyRate called with an empty currency code have
\* thrown InvalidCurrencyCodeError without entering the fetch loop: nothing
\* was fetched, and the store is as the earlier calls left it, its expired
\* entries included
C19_EmptyCodeThrowsFirst ==
    (SingleRate /\ args.currencyCode = << >>) =>
        /\ pc = "done"
        /\ found = Thrown("InvalidCurrencyCodeError")
        /\ api = "" /\ result = NoResult
        /\ attempts = << >>
        /\ \E step \in TickSteps : cache = SeededCache(now - step)

\* getHourlyRate('') over a store whose entries have expired: they are still
\* there
C19_Witness ==
    /\ args.wrapper = "getHourlyRate" /\ args.currencyCode = << >>
    /\ found.error = "InvalidCurrencyCodeError"
    /\ attempts = << >>
    /\ cache = SeededCache(now - 90000)
    /\ \A k \in DOMAIN cache : now > cache[k].expiresAt

\* two characters are the same letter, in whatever case
SameLetter(x, y) == x = y \/ \E c \in DOMAIN Upper : {x, y} = {c, Upper[c]}

\* two codes are the same but for the case of their letters
SameCode(a, b) == Len(a) = Len(b) /\ \A i \in 1..Len(a) : SameLetter(a[i], b[i])

\* the positions of the returned records whose code is the one asked for
Matches == { i \in 1..Len(result.rates) : SameCode(result.rates[i].code, args.currencyCode) }

\* C20: getRate(code) and getHourlyRate(code) with a code that is not empty,
\* once the records are there: the first record whose code is the asked one
\* but for the case of the letters is returned, and null, no error, when no
\* record has that code
C20_LookupIgnoresCase ==
    (SingleRate /\ args.currencyCode # << >> /\ result.kind = "rates"
        /\ found.kind # "none") =>
        IF Matches = {}
        THEN found = Looked({})
        ELSE /\ found.kind = "rate"
             /\ found.rates =
                    << result.rates[CHOOSE i \in Matches : \A j \in Matches : i <= j] >>
             /\ found.rates[1].code = ToUpperCase(args.currencyCode)

\* getRate('uSd') returns the record of USD
C20_Witness ==
    /\ args.wrapper = "getRate" /\ args.currencyCode = << "u", "S", "d" >>
    /\ found.kind = "rate"
    /\ found.rates[1].code = << "U", "S", "D" >>
    /\ ~result.cached

(***************************************************************************)
(* convert.                                                                *)
(***************************************************************************)
\* a call of convert whose two codes are the same but for the case
ConvertsSame == input.fn = "convert" /\ SameCode(input.from, input.to)
\* a call of convert over the set that fetchRates resolved
Converted ==
    /\ input.fn = "convert"
    /\ ~SameCode(input.from, input.to)
    /\ result.kind = "rates"
    /\ output.kind # "none"

\* the values of a quote field of a currency in the resolved set: none where
\* the currency is missing or the field is null
QuoteOf(code, field) ==
    UNION { result.rates[i][field] :
                i \in { j \in 1..Len(result.rates) : SameCode(result.rates[j].code, code) } }

\* the quote field of each leg: the override, or the default of the leg
FromField == IF input.use = "" THEN "forexBuying" ELSE input.use
ToField == IF input.use = "" THEN "forexSelling" ELSE input.use

\* C21: convert(amount, from, to) with from and to the same code after
\* upper-casing returns amount unchanged and resolves no rates: fetchRates is
\* not called, no url is fetched, the cache is neither read nor written.
C21_SameCodeReturnsAmount ==
    [][ (input.fn = "" /\ input'.fn = "convert" /\ SameCode(input'.from, input'.to))
        => /\ pc' = "done"
           /\ output'.kind = "number"
           /\ output'.value = [num |-> input'.amount, den |-> 1]
           /\ api' = "" /\ attempts' = << >> /\ url' = NoUrl
           /\ result' = NoResult
           /\ cache' = cache ]_vars

\* convert(7, 'usd', 'USD') has returned over a filled cache
C21_Witness ==
    /\ ConvertsSame
    /\ input.from # input.to
    /\ input.amount # 0
    /\ output.kind = "number"
    /\ DOMAIN cache # {}

C23_UseAndMissingQuotes ==
    Converted =>
        LET needsFrom == ~SameCode(input.from, TRY)
            needsTo == ~SameCode(input.to, TRY)
            from == IF needsFrom THEN QuoteOf(input.from, FromField) ELSE { 1 }
            to == IF needsTo THEN QuoteOf(input.to, ToField) ELSE { 1 }
        IN IF from = {} \/ to = {}
           THEN output.kind = "error" /\ output.error = "RateNotFoundError"
           ELSE /\ output.kind = "number"
                /\ \E fb \in from : \E fs \in to :
                       /\ output.value.num = input.amount * fb
                       /\ output.value.den = fs

\* convert(_, 'xdr', 'try', {use: 'banknoteSelling'}) has thrown: XDR is in the
\* set, its banknoteSelling is null
C23_Witness ==
    /\ Converted
    /\ input.use = "banknoteSelling"
    /\ QuoteOf(input.from, "forexBuying") # {}
    /\ QuoteOf(input.from, "banknoteSelling") = {}
    /\ output.kind = "error" /\ output.error = "RateNotFoundError"

\* convert(7, 'usd', 'xdr', {use: 'forexBuying'}) has returned a number: both
\* legs read forexBuying
C23_WitnessCross ==
    /\ Converted
    /\ input.use = "forexBuying"
    /\ ~SameCode(input.from, TRY) /\ ~SameCode(input.to, TRY)
    /\ QuoteOf(input.to, "forexSelling") = {}
    /\ output.kind = "number"

(***************************************************************************)
(* getRates and rateType.                                                  *)
(***************************************************************************)
\* the positions of the records of a set that a rate type asks for
KeptBy(set, type) ==
    { i \in 1..Len(set) :
        /\ type = "forex" => (set[i].forexBuying # {} \/ set[i].forexSelling # {})
        /\ type = "banknote" => (set[i].banknoteBuying # {} \/ set[i].banknoteSelling # {}) }

\* rates holds exactly the records of set that the type asks for, in the order
\* of set
IsFiltered(rates, set, type) ==
    /\ Len(rates) = Cardinality(KeptBy(set, type))
    /\ \A k \in 1..Len(rates) :
           /\ rates[k].raw.index \in KeptBy(set, type)
           /\ rates[k] = set[rates[k].raw.index]
    /\ \A k \in 1..(Len(rates) - 1) : rates[k].raw.index < rates[k + 1].raw.index
    /\ type = "all" => rates = set

\* C24: getRates returns, of the resolved set (the records decoded from the
\* fetched document, or the stored records on a cache hit), exactly those with
\* a forex quote for 'forex', exactly those with a banknote quote for
\* 'banknote', in the order of the set, and the whole set for 'all'.
C24_RateTypeFilter ==
    [][ /\ (pc = "fetch" /\ result'.kind = "rates")
               => \A doc \in MixedDocs(PastDay) :
                      RatesResponse("ok", doc)
                          => IsFiltered(result'.rates, parseTcmbXml(doc), options.rateType)
        /\ (pc = "idle" /\ result'.kind = "rates")
               => IsFiltered(result'.rates,
                             cache[RatesCacheKey(DatedUrl(targetDate'))].data,
                             options'.rateType) ]_vars

\* getRates({ rateType: 'forex' }) has returned one of the two records it
\* stored
C24_Witness ==
    /\ api = "getRates"
    /\ result.kind = "rates"
    /\ ~result.cached
    /\ options.rateType = "forex"
    /\ RatesCacheKey(DatedUrl(targetDate)) \in DOMAIN cache
    /\ Len(cache[RatesCacheKey(DatedUrl(targetDate))].data) = 2
    /\ Len(result.rates) = 1
    /\ result.rates[1].raw.index = 2

(***************************************************************************)
(* The hour slots and the paths.                                           *)
(***************************************************************************)
\* C25: getHoursToTry(start) is, for a slot, the slots from start down to
\* 10:00 in strictly descending order, none twice; for any other input it is
\* the full list 15:00 .. 10:00.
C25_HoursToTry ==
    (input.fn = "getHoursToTry") =>
        LET hours == output.hours
        IN IF SlotNo(input.hour) = 0
           THEN hours = << "15:00", "14:00", "13:00", "12:00", "11:00", "10:00" >>
           ELSE /\ Len(hours) = SlotNo(input.hour)
                /\ hours[1] = input.hour
                /\ hours[Len(hours)] = "10:00"
                /\ \A i \in 1..Len(hours) : SlotNo(hours[i]) # 0
                /\ \A i \in 1..(Len(hours) - 1) : SlotNo(hours[i + 1]) = SlotNo(hours[i]) - 1

\* getHoursToTry('14:00') has returned [14:00, 13:00, 12:00, 11:00, 10:00]
C25_Witness ==
    /\ input.fn = "getHoursToTry"
    /\ input.hour = "14:00"
    /\ output.hours = << "14:00", "13:00", "12:00", "11:00", "10:00" >>

\* the hour of the day in UTC and in UTC+3 at the clock's reading
UtcHour == (now % 86400) \div 3600
Utc3Hour == IF UtcHour <= 20 THEN UtcHour + 3 ELSE UtcHour - 21

\* C26: getLatestAvailableHour gives, for the hour h of the day in UTC+3,
\* '15:00' when h < 10, the slot h:00 when 10 <= h <= 14 and '15:00' when
\* h >= 15, at every UTC hour; the result is one of the six slots.
C26_LatestAvailableHour ==
    (input.fn = "getLatestAvailableHour") =>
        /\ SlotNo(output.hour) # 0
        /\ Utc3Hour < 10 => output.hour = "15:00"
        /\ (10 <= Utc3Hour /\ Utc3Hour <= 14) => SlotNo(output.hour) + 9 = Utc3Hour
        /\ Utc3Hour >= 15 => output.hour = "15:00"

\* getLatestAvailableHour has returned '10:00' at 07:30 UTC
C26_Witness ==
    /\ input.fn = "getLatestAvailableHour"
    /\ UtcHour = 7
    /\ output.hour = "10:00"

\* the path of a calendar day, and of a slot of it, as the claim spells it
IsPathOf(path, date, hourNum) ==
    /\ Len(path.dir) = 6
    /\ Num(SubSeq(path.dir, 1, 4)) = date.y
    /\ Num(SubSeq(path.dir, 5, 6)) = date.m
    /\ Len(path.file) = 8
    /\ Num(SubSeq(path.file, 1, 2)) = date.d
    /\ Num(SubSeq(path.file, 3, 4)) = date.m
    /\ Num(SubSeq(path.file, 5, 8)) = date.y
    /\ path.hour = hourNum

\* the four digits of a slot
SlotDigits(hour) == << 1, SlotNo(hour) - 1, 0, 0 >>

\* C27: the path of a day is YYYYMM/DDMMYYYY.xml and the path of a slot of a
\* day YYYYMM/DDMMYYYY-HHMM.xml, month and day padded to two digits, the
\* colon of the hour removed; two different days or slots never share a path.
C27_Paths ==
    /\ (input.fn = "formatDateForTcmb") =>
           /\ IsPathOf(output.path, input.date, << >>)
           /\ \A date \in PathDates :
                  date # input.date => formatDateForTcmb(date) # output.path
    /\ (input.fn = "formatDateForHourly") =>
           /\ IsPathOf(output.path, input.date, SlotDigits(input.hour))
           /\ \A date \in PathDates : \A i \in 1..Len(VALID_HOURS) :
                  (date # input.date \/ VALID_HOURS[i] # input.hour)
                      => formatDateForHourly(date, VALID_HOURS[i]) # output.path

\* formatDateForHourly of the leap day 2024-02-29 and the slot 10:00 has
\* returned 202402/29022024-1000.xml
C27_Witness ==
    /\ input.fn = "formatDateForHourly"
    /\ input.date = [y |-> 2024, m |-> 2, d |-> 29]
    /\ input.hour = "10:00"
    /\ output.path = [dir |-> << 2, 0, 2, 4, 0, 2 >>,
                      file |-> << 2, 9, 0, 2, 2, 0, 2, 4 >>,
                      hour |-> << 1, 0, 0, 0 >>]

(***************************************************************************)
(* The decoders.                                                           *)
(***************************************************************************)
\* C28: parseHourlyXml throws ParseError for a document without its header
\* block (baslik_bilgi) or without its rate list (doviz_kur_liste), and
\* returns no record and no error for a document that has both and no entry.
C28_HourlyNeedsHeaderAndList ==
    (input.fn = "parseHourlyXml") =>
        /\ (~input.doc.header \/ ~input.doc.liste)
               => (output.kind = "error" /\ output.error = "ParseError")
        /\ (input.doc.header /\ input.doc.liste /\ input.doc.entries = << >>)
               => (output.kind = "rates" /\ output.rates = << >>)

\* the six numeric fields of a daily record and the tags they are read from
NumericFields ==
    { << "forexBuying", "ForexBuying" >>, << "forexSelling", "ForexSelling" >>,
      << "banknoteBuying", "BanknoteBuying" >>, << "banknoteSelling", "BanknoteSelling" >>,
      << "crossRateUsd", "CrossRateUSD" >>, << "crossRateOther", "CrossRateOther" >> }

\* C29: each of the six numeric fields of a daily record is a number or null:
\* null, never 0 and never NaN, for a blank, missing or unparsable field, and
\* the value, zero included, for a field that holds a number.
C29_NumberOrNull ==
    (input.fn = "parseTcmbXml" /\ output.kind = "rates") =>
        \A i \in 1..Len(output.rates) : \A f \in NumericFields :
            LET value == output.rates[i][f[1]]
                text == input.doc.entries[i][f[2]]
            IN /\ value # { NaN }
               /\ (text = << >> \/ \E k \in 1..Len(text) : text[k] = X) => value = {}
               /\ (text # << >> /\ \A k \in 1..Len(text) : text[k] \in 0..9)
                      => value = { Num(text) }

\* the error classes a caller of getRates or getHourlyRates may see
TypedErrors == { "NetworkError", "NoBusinessDayDataError", "ParseError" }

\* what fetch rejects with and what the loops throw for themselves
RawErrors == { "TypeError", "AbortError", "TcmbResponseError", "TcmbResponseError404" }

C32_WitnessExplicitToday ==
    /\ Daily /\ options.date = { DayOf(startedAt) } /\ attempts # << >>
    /\ attempts[1] = DatedUrl(DayOf(startedAt))

\* C34: the attempts of one call are made one after the other.  A step that
\* starts a transport call starts exactly one, and it is either the first of
\* its call or taken when the pending attempt of the candidate before it
\* settled with a failure, which that step records; so the only transport
\* call of the call that has not settled is the last one of its attempts.
C34_OneAttemptAtATime ==
    [][ /\ Len(attempts') > Len(attempts) =>
               /\ attempts' = Append(attempts, url')
               /\ pc' = "fetch"
               /\ \/ pc = "idle" /\ attempts = << >>
                  \/ /\ pc = "fetch" /\ url = attempts[Len(attempts)]
                     /\ url' # url
                     /\ lastError' \in RawErrors \cup { "ParseError" }
        /\ pc' = "fetch" => (attempts' # << >> /\ url' = attempts'[Len(attempts')])
        /\ pc' # "fetch" => url' = NoUrl
      ]_vars

\* a third candidate is pending after the first two failed, of each feed
C34_Witness ==
    /\ pc = "fetch" /\ Len(attempts) = 3 /\ url = attempts[3]
    /\ attempts[1] # attempts[2] /\ attempts[2] # attempts[3]
    /\ lastError = "TcmbResponseError404"

(***************************************************************************)
(* SpecRepeat: a call and one call after it, the clock advancing between   *)
(* them or not, against a server whose documents stay as they are: what it *)
(* answers for a url is fixed for the whole behaviour, and it answers 404  *)
(* for a url it holds nothing for.                                         *)
(***************************************************************************)
\* what the server answers for url u
ServerAnswer(u) ==
    IF u \in DOMAIN server THEN server[u]
    ELSE [outcome |-> "404", doc |-> BrokenDoc(u.base)]

\* the three answers other than 404: the document, a status 500, a status 200
\* with a body that is no document
Held(kind, doc) ==
    [outcome |-> IF kind = "500" THEN "500" ELSE "ok",
     doc |-> IF kind = "doc" THEN doc ELSE BrokenDoc(doc.feed)]

\* a server that published the hourly documents of day d up to slot s, and
\* answers with `kind` for slot s itself
HourlyServer(d, s, kind) ==
    [u \in { HourlyUrl(d, VALID_HOURS[i]) : i \in 1..s } |->
        Held(IF SlotNo(u.hour) = s THEN kind ELSE "doc", HourlyDoc(d, u.hour, 1))]

\* a server that published the daily documents up to day d, and answers with
\* `kind` for today.xml ("404": it holds nothing for it)
DailyServer(d, kind) ==
    [u \in { DatedUrl(d), DatedUrl(d - 1) } \cup
           (IF kind = "404" THEN {} ELSE { TodayUrl }) |->
        IF u.today THEN Held(kind, DailyDoc(d, 1)) ELSE Held("doc", DailyDoc(u.day, 1))]

\* the servers of SpecRepeat: one feed varies, the other has its documents
Servers ==
    { HourlyServer(PastDay, s, kind) @@ DailyServer(StartDay - 1, "doc") :
          s \in 0..3, kind \in { "doc", "500", "broken" } }
    \cup { HourlyServer(PastDay, 3, "doc") @@ DailyServer(StartDay - k, kind) :
               k \in 1..2, kind \in { "doc", "404", "broken" } }

RepeatRatesOptions ==
    [date : { {} }, rateType : { "all" }, hour : { "" },
     fallbackToLastBusinessDay : BOOLEAN, fallbackToPreviousHour : { FALSE },
     cache : BOOLEAN]
RepeatHourlyOptions ==
    [date : { { PastDay } }, rateType : { "all" }, hour : { "latest", "12:00" },
     fallbackToLastBusinessDay : { FALSE }, fallbackToPreviousHour : BOOLEAN,
     cache : BOOLEAN]

InitRepeat ==
    /\ now \in InitClocks /\ getLatestAvailableHour(now) = "12:00"
    /\ cache = EmptyCache
    /\ pc = "idle"
    /\ api = ""
    /\ options = NoOptions
    /\ startedAt = 0
    /\ targetDate = 0
    /\ targetHour = ""
    /\ hoursToTry = << >>
    /\ hourIdx = 0
    /\ retries = 0
    /\ lastError = "null"
    /\ isTargetToday = FALSE
    /\ url = NoUrl
    /\ attempts = << >>
    /\ result = NoResult
    /\ calls = << >>
    /\ ticks = 0
    /\ args = NoArgs
    /\ found = NoResult
    /\ lastSet = EmptyCache
    /\ got = NoGet
    /\ input = NoInput
    /\ output = NoResult
    /\ server \in Servers
    /\ peer = NoPeer

CallRatesAgain == \E o \in RepeatRatesOptions : GetRates(o) /\ UNCHANGED aside
CallHourlyAgain == \E o \in RepeatHourlyOptions : GetHourlyRates(o) /\ UNCHANGED aside
\* the server answers the pending fetch
ServeRates == RatesResponse(ServerAnswer(url).outcome, ServerAnswer(url).doc)
ServeHourly == HourlyResponse(ServerAnswer(url).outcome, ServerAnswer(url).doc)
\* the first call has returned and the caller goes on to its second call
ReturnFirst == calls = << >> /\ Return

NextRepeat ==
    CallRatesAgain \/ CallHourlyAgain \/ ServeRates \/ ServeHourly \/ ReturnFirst
    \/ Advance

SpecRepeat == InitRepeat /\ [][NextRepeat]_vars

\* the cache key of a url
KeyOf(u) == IF u.base = TCMB_BASE_URL THEN RatesCacheKey(u) ELSE HourlyCacheKey(u)

\* the store c holds at time t an entry under key that has not expired
Unexpired(c, key, t) == key \in DOMAIN c /\ t <= c[key].expiresAt

\* the candidate the loop of the running call stands at
Standing ==
    IF Hourly THEN HourlyUrl(targetDate, hoursToTry[hourIdx])
    ELSE IF options.date = {} /\ retries = 0 THEN TodayUrl
    ELSE DatedUrl(targetDate)

\* C33: with caching enabled a transport call for a candidate, first or
\* fallback, starts only when the cache holds no unexpired entry under that
\* candidate's key; a call that returns from the cache returns the payload of
\* the unexpired entry of the candidate it stands at, in the step in which it
\* reached that candidate, and starts no transport call in that step or after
\* it.
C33_CacheBeforeTransport ==
    [][ /\ (Len(attempts') > Len(attempts) /\ options'.cache) =>
               /\ url' = Standing'
               /\ ~Unexpired(cache, KeyOf(url'), now)
        /\ (pc # "done" /\ pc' = "done" /\ result'.cached) =>
               /\ options'.cache
               /\ attempts' = attempts
               /\ Unexpired(cache, KeyOf(Standing'), now)
               /\ result'.kind = "rates"
               /\ result'.rates =
                      IF Daily' THEN filterRates(cache[KeyOf(Standing')].data,
                                                 options'.rateType)
                      ELSE cache[KeyOf(Standing')].data
        /\ pc = "done" => Len(attempts') <= Len(attempts)
      ]_vars

\* the second call fetched its first candidate again, got 404 again and found
\* the next one, an hour or a day earlier, in the cache
C33_Witness ==
    /\ pc = "done" /\ result.cached /\ Len(attempts) = 1 /\ options.cache
    /\ Len(calls) = 1 /\ Len(calls[1].attempts) = 2 /\ calls[1].kind = "rates"
    /\ attempts[1] = calls[1].attempts[1]
    /\ Standing = calls[1].attempts[2]
    /\ lastError = "TcmbResponseError404"

(***************************************************************************)
(* SpecPair: two calls of getHourlyRates with the same options, the second *)
(* one started while the first awaits its fetch or after it ended.  Both   *)
(* run fetchHourlyRates over globalCache; with both fallbacks off a call   *)
(* has one candidate (hourly-client.ts:85-93), and the state of the second *)
(* call is kept in peer.                                                   *)
(***************************************************************************)
PairOptions ==
    [date : { { PastDay } }, rateType : { "all" }, hour : { "latest", "12:00" },
     fallbackToLastBusinessDay : { FALSE }, fallbackToPreviousHour : { FALSE },
     cache : BOOLEAN]

\* the variables of the first call, which a step of the second leaves alone
first == << now, pc, api, options, startedAt, targetDate, targetHour, hoursToTry,
            hourIdx, retries, lastError, isTargetToday, url, attempts, result, calls,
            ticks, args, found, lastSet, got, input, output, server >>

CallHourlyPair == \E o \in PairOptions : GetHourlyRates(o) /\ UNCHANGED aside

\* the second call, from its start to its await of fetch or to its return of
\* the cached records (hourly-client.ts:72-109)
PeerCall ==
    /\ pc \in { "fetch", "done" }
    /\ api = "getHourlyRates"
    /\ peer.pc = "idle"
    /\ LET o == options
           date == CHOOSE d \in o.date : TRUE
           hour == IF o.hour = "latest" THEN getLatestAvailableHour(now) ELSE o.hour
           u == HourlyUrl(date, HoursOfDay(o.fallbackToPreviousHour, hour)[1])
           cacheKey == HourlyCacheKey(u)
       IN  IF o.cache /\ CacheHit(cache, cacheKey, now)
           THEN /\ peer' = [pc |-> "done", options |-> o,
                            isTargetToday |-> isToday(date, now), url |-> NoUrl,
                            attempts |-> << >>,
                            result |-> Returned(cache[cacheKey].data, TRUE)]
                /\ cache' = cache
           ELSE /\ peer' = [pc |-> "fetch", options |-> o,
                            isTargetToday |-> isToday(date, now), url |-> u,
                            attempts |-> << u >>, result |-> NoResult]
                /\ cache' = IF o.cache THEN CacheAfterGet(cache, cacheKey, now)
                            ELSE cache
    /\ UNCHANGED first

\* the pending fetch of the second call settles (hourly-client.ts:109-160)
PeerResponse(outcome, doc) ==
    /\ peer.pc = "fetch"
    /\ IF outcome = "ok" /\ ~HourlyXmlThrows(doc)
       THEN /\ cache' = IF peer.options.cache
                        THEN CacheSet(cache, HourlyCacheKey(peer.url), parseHourlyXml(doc),
                                      determineCacheTtl(peer.url.day, peer.url.hour,
                                                        peer.isTargetToday, now),
                                      now)
                        ELSE cache
            /\ peer' = [peer EXCEPT !.pc = "done", !.url = NoUrl,
                                    !.result = Returned(parseHourlyXml(doc), FALSE)]
       ELSE /\ cache' = cache
            /\ peer' = [peer EXCEPT
                            !.pc = "done", !.url = NoUrl,
                            !.result =
                                Thrown(IF Is404(ErrorOf(outcome, HourlyXmlThrows(doc)))
                                       THEN "NoBusinessDayDataError" ELSE "NetworkError")]
    /\ UNCHANGED first

ServePeer == PeerResponse(ServerAnswer(peer.url).outcome, ServerAnswer(peer.url).doc)

NextPair == CallHourlyPair \/ ServeHourly \/ PeerCall \/ ServePeer

SpecPair == InitRepeat /\ [][NextPair]_vars

\* C35: two calls of getHourlyRates with the same options and caching enabled
\* that both found the cache empty both fetch the same url, none waiting for
\* the other; when both have ended with the document, in whichever order their
\* fetches settled, the cache holds one entry, under the key of that url, with
\* the records of the document, and both callers hold those records.
C35_BothFetchOneEntry ==
    ( /\ Hourly /\ options.cache /\ pc = "done" /\ peer.pc = "done"
      /\ result.kind = "rates" /\ peer.result.kind = "rates" ) =>
        /\ attempts # << >>
        /\ DOMAIN cache = { KeyOf(attempts[1]) }
        /\ cache[KeyOf(attempts[1])].data = result.rates
        /\ peer.result.rates = result.rates
        /\ peer.attempts \in { << >>, attempts }
        /\ peer.result.cached <=> peer.attempts = << >>
        /\ ~result.cached

\* both calls missed, both fetched the url, both returned the document
C35_Witness ==
    /\ Hourly /\ options.cache /\ pc = "done" /\ peer.pc = "done"
    /\ result.kind = "rates" /\ peer.result.kind = "rates"
    /\ Len(attempts) = 1 /\ peer.attempts = attempts
    /\ ~result.cached /\ ~peer.result.cached
    /\ result.rates # << >>
    /\ Cardinality(DOMAIN cache) = 1

\* both fetches are pending at once
C35_WitnessPending ==
    /\ Hourly /\ options.cache /\ pc = "fetch" /\ peer.pc = "fetch"
    /\ peer.url = url /\ cache = EmptyCache

(***************************************************************************)
(* SpecZone: the date a call without a date starts from, new Date() read   *)
(* with getFullYear/getMonth/getDate (src/src/client.ts:29,                *)
(* src/src/hourly-client.ts:77, src/src/utils/date.ts:27-31, 43-48), on    *)
(* hosts of several time zones and at every hour of the day.  Elsewhere in *)
(* this module the host's zone is UTC.                                     *)
(***************************************************************************)
\* the calendar day of instant t on a host `offset` hours east of UTC
LocalDay(t, offset) == (t + offset * 3600) \div 86400

\* hosts in New York (winter), UTC, Istanbul and Tokyo
HostOffsets == { -5, 0, 3, 9 }

InitZone ==
    /\ NoCall
    /\ now \in HourClocks
    /\ cache = EmptyCache
    /\ input \in [fn : {""}, offset : HostOffsets]
    /\ output = NoResult
    /\ server = NoServer
    /\ peer = NoPeer

\* targetDate = new Date(), isToday(targetDate) and, for the hourly feed,
\* getLatestAvailableHour() of a call without a date and with hour 'latest'
ApplyNewDate ==
    /\ input.fn = ""
    /\ input' = [input EXCEPT !.fn = "new Date"]
    /\ output' = [kind |-> "date", date |-> LocalDay(now, input.offset),
                  isToday |-> (LocalDay(now, input.offset) = LocalDay(now, input.offset)),
                  hour |-> getLatestAvailableHour(now)]
    /\ UNCHANGED codec

SpecZone == InitZone /\ [][ApplyNewDate]_vars

\* the calendar day of the clock in UTC+3
IstanbulDay == (now + 3 * 3600) \div 86400

\* C36: without a date the call starts from the calendar date of the clock in
\* UTC+3, the zone getLatestAvailableHour takes its hour in, at every instant
\* and whatever the zone of the host.
C36_TargetDateInIstanbul ==
    (input.fn = "new Date") =>
        /\ output.date = IstanbulDay
        /\ output.isToday

\* the keys whose entry a step sets: the entry is new or differs
Written == { k \in DOMAIN cache' : k \notin DOMAIN cache \/ cache'[k] # cache[k] }

\* the key under which the document of the pending fetch belongs
KeyOfPending ==
    [prefix |-> IF Daily THEN "tcmb_rates_" ELSE "tcmb_hourly_", url |-> url]

C38_CacheFalseBypasses ==
    [][ (api' # "" /\ ~options'.cache) =>
            /\ cache' = cache
            /\ ~result'.cached
            /\ pc' = "fetch" => (url' = Standing' /\ Len(attempts') = Len(attempts) + 1)
            /\ pc' = "done" => attempts' # << >>
      ]_vars

\* a call with cache: false has fetched a url whose entry, written by the call
\* before it, has not expired, and that entry is as it was
C38_Witness ==
    /\ pc = "done" /\ ~options.cache /\ result.kind = "rates" /\ ~result.cached
    /\ Len(attempts) = 1
    /\ calls # << >> /\ calls[1].options.cache /\ calls[1].attempts = attempts
    /\ Unexpired(cache, KeyOf(attempts[1]), now)
    /\ cache[KeyOf(attempts[1])].expiresAt < now + 86400

(***************************************************************************)
(* SpecTypes: two calls of getRates for one date, each with a rateType of  *)
(* its own, against a server that holds one document for that date, with   *)
(* records of every kind.                                                  *)
(***************************************************************************)
TypeServers ==
    { DatedUrl(PastDay) :> Held("doc", doc) :
          doc \in { d \in MixedDocs(PastDay) : ~TcmbXmlThrows(d) } }

InitTypes ==
    /\ NoCall
    /\ now \in InitClocks
    /\ cache = EmptyCache
    /\ input = NoInput
    /\ output = NoResult
    /\ server \in TypeServers
    /\ peer = NoPeer

CallRatesTyped == \E o \in FilterOptions : GetRates(o) /\ UNCHANGED aside

NextTypes == CallRatesTyped \/ ServeRates \/ ReturnFirst \/ Advance

SpecTypes == InitTypes /\ [][NextTypes]_vars

\* the records of the document the server holds for the date
FullSet == parseTcmbXml(server[DatedUrl(PastDay)].doc)

\* C39: the entry of a daily document holds all the records of the document,
\* whatever rateType the call that stored it asked for; a caching call that
\* follows a caching call for the same url before the entry expires makes no
\* transport call; and every call returns, of all the records of the
\* document, those its own rateType asks for.
C39_EntryIsUnfiltered ==
    /\ RatesCacheKey(DatedUrl(PastDay)) \in DOMAIN cache =>
           cache[RatesCacheKey(DatedUrl(PastDay))].data = FullSet
    /\ (pc = "done" /\ result.kind = "rates") =>
           IsFiltered(result.rates, FullSet, options.rateType)
    /\ ( /\ pc = "done" /\ options.cache
         /\ calls # << >> /\ calls[1].options.cache /\ calls[1].kind = "rates"
         /\ startedAt <= calls[1].startedAt + PAST_DAY ) =>
           (attempts = << >> /\ result.kind = "rates" /\ result.cached)

\* a 'forex' call stored a document of which it returned a part, and the 'all'
\* call after it got the whole of it from the cache
C39_Witness ==
    /\ pc = "done" /\ options.cache /\ options.rateType = "all"
    /\ calls # << >> /\ calls[1].options.cache /\ calls[1].options.rateType = "forex"
    /\ calls[1].kind = "rates" /\ Len(calls[1].attempts) = 1
    /\ attempts = << >> /\ result.cached
    /\ result.rates = FullSet
    /\ Cardinality(KeptBy(FullSet, "forex")) < Len(FullSet)

\* the first call went through fallback: it made k + 1 transport calls, the
\* last of which returned the document it stored, and the running call is a
\* caching call with the same options, started on the same clock day and
\* before that entry expires
RepeatOfFallback(k) ==
    /\ pc = "done" /\ calls # << >>
    /\ options = calls[1].options /\ options.cache /\ api = calls[1].api
    /\ calls[1].kind = "rates" /\ ~calls[1].cached
    /\ Len(calls[1].attempts) = k + 1
    /\ DayOf(startedAt) = DayOf(calls[1].startedAt)
    /\ startedAt <= calls[1].startedAt
                      + (IF calls[1].attempts[k + 1].today THEN TODAY_TTL ELSE PAST_DAY)

\* the running call made k transport calls, to the first k candidates of the
\* first call in their order, and returned the entry of candidate k + 1
RefetchedThenHit(k) ==
    /\ attempts = SubSeq(calls[1].attempts, 1, k)
    /\ result.kind = "rates" /\ result.cached
    /\ Standing = calls[1].attempts[k + 1]

\* C40 as stated: the repeat of a request that resolved through fallback
\* past k failed candidates makes k transport calls, to those candidates, and
\* returns the cached payload of candidate k + 1.
C40_RepeatMakesKAttempts ==
    \A k \in 1..5 : RepeatOfFallback(k) => RefetchedThenHit(k)

\* C40, amended: so it is when the repeat starts from the same candidate as
\* the first call, which hour 'latest' does within one hour slot.
C40_RepeatFromSameCandidate ==
    \A k \in 1..5 :
        ( /\ RepeatOfFallback(k)
          /\ RequestedHour(options, startedAt)
                 = RequestedHour(calls[1].options, calls[1].startedAt) ) =>
            RefetchedThenHit(k)

\* the repeat fetched the one failed candidate again and returned the entry
\* of the next one, for the hourly feed two hours after the first call
C40_Witness ==
    /\ RepeatOfFallback(1) /\ RefetchedThenHit(1)
    /\ Hourly /\ startedAt = calls[1].startedAt + 7200
    /\ lastError = "TcmbResponseError404"

=============================================================================
